---- MODULE Spec2Model ----
(***************************************************************************)
(* Hirely: the browser's localStorage fallback layer (src/src/App.tsx),    *)
(* the /api/db handlers it talks to (src/src/server.ts), the external      *)
(* listing fetcher (src/src/services/jobApi.ts) and the jobs page's        *)
(* aggregation (JobsPage.fetchJobsAndApps).                                *)
(***************************************************************************)
EXTENDS Integers, Sequences, FiniteSets, TLC

\* ------------------------------------------------------------------ bounds
\* Ids of rows that other sessions put into the remote store.
MaxForeign == 1
\* Jobs this session creates (handleCreateJob), each with a fresh id.
MaxOwn == 1
\* Write requests of this session that may be in flight at once.
MaxInflight == 1
\* Ids and entries of the stores drawn as inputs of one read (SpecRead).
MaxReadIds == 2
MaxLen == 2

\* --------------------------------------------------------------- constants
LOCAL_APPS_KEY == "hirely_applications"
LOCAL_JOBS_KEY == "hirely_posted_jobs"

Keys == {LOCAL_JOBS_KEY, LOCAL_APPS_KEY}
Tables == {"jobs", "applications"}

ForeignIds == 1..MaxForeign
OwnIds == (MaxForeign + 1)..(MaxForeign + MaxOwn)

\* The content of an entry besides its id: a job's category, an
\* application's status (types.ts).
Categories == {"Engineering", "Design"}
Statuses == {"pending", "reviewed", "accepted", "rejected", "on_hold"}
\* The category chosen in the job form, in the sessions checked.
PostCategories == {"Engineering"}

\* A locally posted job (handleCreateJob) or a row of the jobs table.
PostedJob(i, c) == [id |-> i, category |-> c, isExternal |-> FALSE, externalSource |-> ""]
\* An application (confirmExternalApplication, handleApply).
App(i, j, u, s) == [id |-> i, jobId |-> j, candidateId |-> u, status |-> s]

\* ------------------------------------------------------- JavaScript values
\* What JSON.parse can give back: an array of entries, or something that is
\* no array (null, an object, a number).
Arr(s) == [t |-> "array", items |-> s]
NullV == [t |-> "null", items |-> <<>>]
ObjectV == [t |-> "object", items |-> <<>>]
NumberV == [t |-> "number", items |-> <<>>]
NonArrays == {NullV, ObjectV, NumberV}
IsArray(v) == v.t = "array"

\* What localStorage holds under a key: nothing (getItem gives null), the
\* empty string, text that is not JSON, or the JSON text of a value.
Absent == [k |-> "absent", val |-> NullV]
EmptyText == [k |-> "empty", val |-> NullV]
Garbage == [k |-> "garbage", val |-> NullV]
JsonText(v) == [k |-> "json", val |-> v]

\* The outcome of a call: a value returned, or an exception thrown (for an
\* async function: the promise fulfilled or rejected).
Returned(v) == [st |-> "fulfilled", val |-> v]
Threw == [st |-> "rejected", val |-> NullV]
NotCalled == [st |-> "none", val |-> NullV]

\* ------------------------------------------------------------- sequences
RECURSIVE SelectIds(_, _)
\* s.filter(x => ids.has(x.id))
SelectIds(s, ids) ==
    IF s = <<>> THEN <<>>
    ELSE IF Head(s).id \in ids
         THEN <<Head(s)>> \o SelectIds(Tail(s), ids)
         ELSE SelectIds(Tail(s), ids)

IdsOf(s) == {s[i].id : i \in DOMAIN s}
Count(s, id) == Cardinality({i \in DOMAIN s : s[i].id = id})
UniqueIds(s) == \A i, j \in DOMAIN s : s[i].id = s[j].id => i = j

\* All sequences over S of length at most n.
SeqsUpTo(S, n) == UNION {[1..m -> S] : m \in 0..n}
\* The lists a store can hold: no id twice.
Lists(S, n) == {s \in SeqsUpTo(S, n) : UniqueIds(s)}


VARIABLES
    storage,    \* localStorage: key -> the text stored under it
    db,         \* the remote store: table -> its rows, in list() order
    rd,         \* table -> the combined read in flight, if any, and the local value it read
    ret,        \* table -> what the last completed combined read returned
    net,        \* this session's write requests in flight
    created,    \* number of jobs this session has created
    hist,       \* history of the session, for stating the properties
    page,       \* the jobs page: its state and its aggregation in flight
    upstream,   \* what the two listing endpoints answer in this session, and why
    profiles,   \* the profiles: localStorage's, the remote table's, the role intended
    call,       \* the write helper running, if any: its position and its outcome
    auth,       \* App.fetchProfile: the sign-in being handled and the profile set
    chat,       \* a chat handler: the request it serves and what it has done
    search,     \* GET /api/jobs/search: the request it serves and what it has done
    runs,       \* the jobs page's search box, its effect and the aggregations in flight
    widget,     \* the Chatbot widget: its messages, its input and its request
    voice,      \* the voice mock interview: its phase, its history and what is in flight
    thread,     \* the chat of an application: its messages and its participants' views
    desk        \* a candidate applying: the applications saved and the two pages' state

vars == <<storage, db, rd, ret, net, created, hist, page, upstream,
          profiles, call, auth, chat, search, runs, widget, voice, thread, desk>>
pageVars == <<page, upstream>>
otherVars == <<profiles, call, auth, chat, search, runs, widget, voice, thread,
               desk>>

KeyOf(t) == IF t = "jobs" THEN LOCAL_JOBS_KEY ELSE LOCAL_APPS_KEY

\* --------------------------------------------------- Local storage helpers
\* JSON.parse(localStorage.getItem(key) || '[]') inside try; catch -> []
ReadLocal(raw) ==
    IF raw.k \in {"absent", "empty"} THEN Arr(<<>>)
    ELSE IF raw.k = "garbage" THEN Arr(<<>>)
    ELSE raw.val

getLocalJobs == ReadLocal(storage[LOCAL_JOBS_KEY])
getLocalApplications == ReadLocal(storage[LOCAL_APPS_KEY])

\* localStorage.setItem(key, JSON.stringify(list))
saveLocalJobs(jobs) == [storage EXCEPT ![LOCAL_JOBS_KEY] = JsonText(Arr(jobs))]
saveLocalApplications(apps) == [storage EXCEPT ![LOCAL_APPS_KEY] = JsonText(Arr(apps))]

\* ------------------------------------------------------------ combined read
\* The outcome of fetch('/api/db/<table>'): the fetch threw (transport
\* error, AbortSignal.timeout), or a status came back, with the rows when ok.
FetchThrew == [kind |-> "throw", body |-> <<>>]
HttpError == [kind |-> "status", body |-> <<>>]
HttpOk(rows) == [kind |-> "ok", body |-> rows]

\* A merge that keeps the remote rows only.
MergeRemoteOnly(dbRows, local) == dbRows
\* A merge that keeps the local copy of an entry both stores hold.
MergeLocalWins(dbRows, local) == SelectIds(dbRows, IdsOf(dbRows) \ IdsOf(local)) \o local

\* A merge that keeps every local entry, also one the remote rows hold.
MergeKeepsBoth(dbRows, local) == dbRows \o local

\* [...dbRows, ...local.filter(x => !dbIds.has(x.id))]
MergeLists(dbRows, local) == dbRows \o SelectIds(local, IdsOf(local) \ IdsOf(dbRows))

\* A read that answers [] when the remote call fails.
CombinedReadNoFallback(local, resp) ==
    IF resp.kind # "ok" THEN Returned(Arr(<<>>))
    ELSE IF ~IsArray(local) THEN Returned(local)
    ELSE Returned(Arr(MergeLists(resp.body, local.items)))

\* The value the combined read returns, given the local value it read first
\* and the outcome of the fetch: !res.ok -> local; a throw inside try ->
\* local (a fetch that throws, or .filter called on a value that is no
\* array, a TypeError); else the merge.
CombinedRead(local, resp) ==
    IF resp.kind # "ok" THEN Returned(local)
    ELSE IF ~IsArray(local) THEN Returned(local)
    ELSE Returned(Arr(MergeLists(resp.body, local.items)))

apiGetStoredJobs(localJobs, resp) == CombinedRead(localJobs, resp)
apiGetStoredApplications(localApps, resp) == CombinedRead(localApps, resp)

Idle == [pc |-> "idle", snap |-> NullV]

\* A write request in flight: POST /api/db/jobs with the job as its body, or
\* DELETE /api/db/jobs/:id.
PostReq(job) == [op |-> "POST", id |-> job.id, body |-> <<job>>]
DeleteReq(id) == [op |-> "DELETE", id |-> id, body |-> <<>>]

\* What the history records; here at the start of a session.
NoHistory ==
    [ last |-> [t \in Tables |-> "none"],  \* how the fetch of the last read of t ended
      dirty |-> FALSE,      \* a jobs store changed since the read in flight began
      streak |-> 0,         \* the last reads of jobs (counted up to 2) that succeeded one
                            \* after the other with no jobs store changed since the
                            \* first of them began
      deleted |-> {},       \* jobs created here that apiDeletePostedJob was called on
      unsynced |-> {},      \* jobs created here whose POST failed, never deleted
      expect |-> {},        \* unsynced when the read in flight began, not deleted since
      absent |-> {},        \* deleted, with the DELETE settled, when the read in flight began
      updated |-> [id |-> 0, status |-> "none"],  \* the last status update completed,
                            \* with no other one begun since
      want |-> [id |-> 0, status |-> "none"] ]    \* updated when the read of
                            \* applications in flight began

\* A jobs store (the local list or the remote table) changes.
Touch(h) == [h EXCEPT !.dirty = TRUE, !.streak = 0]

\* The read up to its await: reads the local value, issues the fetch.
CallRead(t, local) ==
    /\ rd[t].pc = "idle"
    /\ rd' = [rd EXCEPT ![t] = [pc |-> "sent", snap |-> local]]
    /\ hist' = IF t = "jobs"
               THEN [hist EXCEPT !.dirty = FALSE, !.expect = hist.unsynced,
                                 !.absent = {id \in hist.deleted : DeleteReq(id) \notin net}]
               ELSE [hist EXCEPT !.want = hist.updated]

\* A caller other than the jobs page (EmployerDashboard.fetchEmployerData,
\* JobSeekerDashboard) starts the read.
CallGetStoredJobs ==
    /\ CallRead("jobs", getLocalJobs)
    /\ UNCHANGED <<storage, db, ret, net, created, pageVars, otherVars>>

CallGetStoredApplications ==
    /\ CallRead("applications", getLocalApplications)
    /\ UNCHANGED <<storage, db, ret, net, created, pageVars, otherVars>>

\* GET /api/db/jobs and GET /api/db/applications, as the fetch sees them:
\* the rows; a 500 when the query fails; or no answer (transport error,
\* AbortSignal.timeout).
ListHandler(t) == {HttpOk(db[t]), HttpError, FetchThrew}

\* The history after the read of table t got response r and returns.
Returning(t, r) ==
    IF t = "jobs"
    THEN [hist EXCEPT !.last[t] = r.kind,
                      !.streak = IF r.kind = "ok" /\ ~hist.dirty
                                 THEN (IF @ < 2 THEN @ + 1 ELSE 2) ELSE 0,
                      !.expect = {}, !.absent = {}]
    ELSE [hist EXCEPT !.last[t] = r.kind, !.want = NoHistory.want]

\* A read that refreshes the local list with the remote rows on success.
ReturnGetStoredJobsRefreshing ==
    /\ rd["jobs"].pc = "sent"
    /\ \E r \in ListHandler("jobs") :
         /\ ret' = [ret EXCEPT !["jobs"] = apiGetStoredJobs(rd["jobs"].snap, r)]
         /\ storage' = IF r.kind = "ok" THEN saveLocalJobs(r.body) ELSE storage
         /\ hist' = Returning("jobs", r)
    /\ rd' = [rd EXCEPT !["jobs"] = Idle]
    /\ UNCHANGED <<db, net, created, pageVars, otherVars>>

\* apiGetStoredJobs from its await to its return: the fetch settles and the
\* value is returned; nothing is written.
ReturnGetStoredJobs ==
    /\ rd["jobs"].pc = "sent"
    /\ \E r \in ListHandler("jobs") :
         /\ ret' = [ret EXCEPT !["jobs"] = apiGetStoredJobs(rd["jobs"].snap, r)]
         /\ storage' = storage
         /\ hist' = Returning("jobs", r)
    /\ rd' = [rd EXCEPT !["jobs"] = Idle]
    /\ UNCHANGED <<db, net, created, pageVars, otherVars>>

\* apiGetStoredApplications from its await to its return.
ReturnGetStoredApplications ==
    /\ rd["applications"].pc = "sent"
    /\ \E r \in ListHandler("applications") :
         /\ ret' = [ret EXCEPT !["applications"] =
                      apiGetStoredApplications(rd["applications"].snap, r)]
         /\ storage' = storage
         /\ hist' = Returning("applications", r)
    /\ rd' = [rd EXCEPT !["applications"] = Idle]
    /\ UNCHANGED <<db, net, created, pageVars, otherVars>>

\* ------------------------------------------------------ writes of jobs
\* list.filter(x => x.id !== id)
Without(s, id) == SelectIds(s, IdsOf(s) \ {id})

\* supabase.from(table).upsert(row): the row with that id is replaced where
\* it stands; a new row is the most recent one, which list() gives first
\* (order by created_at, descending).
Upsert(rows, row) ==
    IF row.id \in IdsOf(rows)
    THEN [i \in DOMAIN rows |-> IF rows[i].id = row.id THEN row ELSE rows[i]]
    ELSE <<row>> \o rows

\* An apiAddPostedJob that sends the job without saving it locally.
apiAddPostedJobRemoteOnly(job) ==
    /\ Cardinality(net) < MaxInflight
    /\ net' = net \cup {PostReq(job)}
    /\ UNCHANGED <<storage, hist>>

\* apiAddPostedJob up to its await: appends the job to the local list and
\* issues the POST. Spreading a local value that is no array throws before
\* anything is written.
apiAddPostedJob(job) ==
    /\ Cardinality(net) < MaxInflight
    /\ IF IsArray(getLocalJobs)
       THEN /\ storage' = saveLocalJobs(getLocalJobs.items \o <<job>>)
            /\ net' = net \cup {PostReq(job)}
            /\ hist' = Touch(hist)
       ELSE UNCHANGED <<storage, net, hist>>

\* EmployerDashboard.handleCreateJob: a job with a fresh id
\* ('job_' + Date.now() + a random suffix) goes to apiAddPostedJob.
handleCreateJob ==
    /\ created < MaxOwn
    /\ \E c \in PostCategories : apiAddPostedJob(PostedJob(MaxForeign + created + 1, c))
    /\ created' = created + 1
    /\ UNCHANGED <<db, rd, ret, pageVars, otherVars>>

\* apiDeletePostedJob up to its await: removes the job from the local list
\* and issues the DELETE.
apiDeletePostedJob(jobId) ==
    /\ Cardinality(net) < MaxInflight
    /\ IF IsArray(getLocalJobs)
       THEN /\ storage' = saveLocalJobs(Without(getLocalJobs.items, jobId))
            /\ net' = net \cup {DeleteReq(jobId)}
            /\ hist' = [Touch(hist) EXCEPT !.deleted = @ \cup ({jobId} \cap OwnIds),
                                           !.unsynced = @ \ {jobId},
                                           !.expect = @ \ {jobId}]
       ELSE UNCHANGED <<storage, net, hist>>

\* EmployerDashboard.handleDeleteJob, on a job the dashboard lists.
handleDeleteJob ==
    /\ \E id \in IdsOf(getLocalJobs.items) \cup IdsOf(db["jobs"]) : apiDeletePostedJob(id)
    /\ UNCHANGED <<db, rd, ret, created, pageVars, otherVars>>

\* POST /api/db/jobs: upserts the body; a database error gives a 500 and
\* leaves the table alone. apiAddPostedJob ignores the status either way.
PostJobHandler ==
    \E r \in net :
      /\ r.op = "POST"
      /\ net' = net \ {r}
      /\ \/ /\ db' = [db EXCEPT !["jobs"] = Upsert(@, r.body[1])]
            /\ hist' = Touch(hist)
         \/ /\ db' = db
            /\ hist' = [hist EXCEPT !.unsynced = @ \cup ({r.id} \ hist.deleted)]
      /\ UNCHANGED <<storage, rd, ret, created, pageVars, otherVars>>

\* DELETE /api/db/jobs/:id: deletes the row, or a 500.
DeleteJobHandler ==
    \E r \in net :
      /\ r.op = "DELETE"
      /\ net' = net \ {r}
      /\ \/ /\ db' = [db EXCEPT !["jobs"] = Without(@, r.id)]
            /\ hist' = Touch(hist)
         \/ UNCHANGED <<db, hist>>
      /\ UNCHANGED <<storage, rd, ret, created, pageVars, otherVars>>

\* A write request that never reaches the server: the fetch throws
\* (transport error or AbortSignal.timeout), the catch logs a warning.
RequestLost ==
    \E r \in net :
      /\ net' = net \ {r}
      /\ hist' = IF r.op = "POST" THEN [hist EXCEPT !.unsynced = @ \cup ({r.id} \ hist.deleted)]
                 ELSE hist
      /\ UNCHANGED <<storage, db, rd, ret, created, pageVars, otherVars>>

\* Another session's POST /api/db/jobs and DELETE /api/db/jobs/:id.
OtherSessionPost ==
    \E i \in ForeignIds, c \in PostCategories :
      /\ db' = [db EXCEPT !["jobs"] = Upsert(@, PostedJob(i, c))]
      /\ db' # db
      /\ hist' = Touch(hist)
      /\ UNCHANGED <<storage, rd, ret, net, created, pageVars, otherVars>>

OtherSessionDelete ==
    \E i \in IdsOf(db["jobs"]) :
      /\ db' = [db EXCEPT !["jobs"] = Without(@, i)]
      /\ hist' = Touch(hist)
      /\ UNCHANGED <<storage, rd, ret, net, created, pageVars, otherVars>>

\* ------------------------------------------------ external listings
\* Jobs an endpoint may list in one answer.
MaxExt == 2

\* A job as GET /api/jobs/adzuna and GET /api/jobs/search map it.
ExternalJob(i, src) ==
    [id |-> i, category |-> IF i % 2 = 1 THEN "Engineering" ELSE "Design",
     isExternal |-> TRUE, externalSource |-> src]
AdzunaJobs(n) == [i \in 1..n |-> ExternalJob(100 + i, "Adzuna")]
SerpJobs(n) == [i \in 1..n |-> ExternalJob(200 + i, "Google Jobs")]

\* What a fetch of a listing endpoint gives: it throws (network error), a
\* status that is not ok (the handlers answer 500, or pass the provider's
\* status on), or 200 with {success: true, jobs}.
ExtThrew == [kind |-> "throw", success |-> FALSE, jobs |-> <<>>]
ExtError == [kind |-> "status", success |-> FALSE, jobs |-> <<>>]
ExtOk(jobs) == [kind |-> "ok", success |-> TRUE, jobs |-> jobs]
AdzunaAnswers == {ExtThrew, ExtError} \cup {ExtOk(AdzunaJobs(n)) : n \in 0..MaxExt}
SerpAnswers == {ExtThrew, ExtError} \cup {ExtOk(SerpJobs(n)) : n \in 0..MaxExt}

\* What stands behind an endpoint's answer: the browser's request does not
\* get through; the server lacks the provider's credentials; the server's
\* request to the provider throws, or comes back with a status that is
\* not ok; or the provider lists some jobs.
Causes == {"transport", "credentials", "providerThrow", "providerStatus", "listed"}

\* GET /api/jobs/adzuna: without ADZUNA_APP_ID or ADZUNA_API_KEY a 500; the
\* provider's status passed on when it is not ok; a 500 from the catch when
\* the provider's fetch throws; else 200 with the mapped results.
AdzunaEndpoint(cause) ==
    CASE cause = "transport" -> {ExtThrew}
      [] cause = "credentials" -> {ExtError}
      [] cause = "providerThrow" -> {ExtError}
      [] cause = "providerStatus" -> {ExtError}
      [] cause = "listed" -> {ExtOk(AdzunaJobs(n)) : n \in 0..MaxExt}

\* GET /api/jobs/search: without SERPAPI_KEY the Express server exits at
\* start (no answer at all) and the serverless handler answers 500; a
\* status of the first page that is not ok ends the loop with nothing
\* collected, answered as 200 with no jobs; a 500 from the catch when the
\* provider's fetch throws; else 200 with the collected jobs.
SearchEndpoint(cause) ==
    CASE cause = "transport" -> {ExtThrew}
      [] cause = "credentials" -> {ExtThrew, ExtError}
      [] cause = "providerThrow" -> {ExtError}
      [] cause = "providerStatus" -> {ExtOk(<<>>)}
      [] cause = "listed" -> {ExtOk(SerpJobs(n)) : n \in 0..MaxExt}

\* The endpoints of a session: what each answers, and why.
Upstreams ==
    {[adzuna |-> w[2], serp |-> w[4], why |-> [adzuna |-> w[1], serp |-> w[3]]] :
        w \in {x \in Causes \X AdzunaAnswers \X Causes \X SerpAnswers :
                 x[2] \in AdzunaEndpoint(x[1]) /\ x[4] \in SearchEndpoint(x[3])}}
Unreachable == [adzuna |-> ExtThrew, serp |-> ExtThrew,
                why |-> [adzuna |-> "transport", serp |-> "transport"]]

\* if (response.ok) { data = await response.json();
\*                    if (data.success && data.jobs) jobs.push(...data.jobs) }
\* inside try/catch: the jobs this answer adds.
Pushed(answer) ==
    IF answer.kind = "ok" /\ answer.success THEN answer.jobs ELSE <<>>

\* jobs.sort(() => Math.random() - 0.5): some order of the same jobs.
Shuffles(jobs) ==
    {[i \in DOMAIN jobs |-> jobs[f[i]]] :
        f \in {g \in [DOMAIN jobs -> DOMAIN jobs] :
                 \A i, j \in DOMAIN jobs : g[i] = g[j] => i = j}}

NoFetch == [pc |-> "idle", jobs |-> <<>>, val |-> <<>>, st |-> "pending"]

\* A fetchExternalJobs that asks both endpoints, whatever the first gave.
AdzunaSettlesThenAlwaysSerp ==
    /\ page.ext.pc = "adzuna"
    /\ page' = [page EXCEPT !.ext = [pc |-> "serp", jobs |-> Pushed(upstream.adzuna),
                                     val |-> <<>>, st |-> "pending"]]
    /\ UNCHANGED <<storage, db, rd, ret, net, created, hist, upstream, otherVars>>

\* A fetchExternalJobs with no try at all: a throw of the Adzuna fetch
\* rejects the promise it returned.
AdzunaSettlesUncaught ==
    /\ page.ext.pc = "adzuna"
    /\ LET jobs == Pushed(upstream.adzuna)
       IN  IF upstream.adzuna.kind = "throw"
           THEN page' = [page EXCEPT !.ext = [pc |-> "settled", jobs |-> <<>>, val |-> <<>>,
                                              st |-> "rejected"]]
           ELSE IF Len(jobs) = 0
           THEN page' = [page EXCEPT !.ext = [pc |-> "serp", jobs |-> jobs, val |-> <<>>,
                                              st |-> "pending"]]
           ELSE \E v \in Shuffles(jobs) :
                  page' = [page EXCEPT !.ext = [pc |-> "settled", jobs |-> jobs, val |-> v,
                                                st |-> "fulfilled"]]
    /\ UNCHANGED <<storage, db, rd, ret, net, created, hist, upstream, otherVars>>

\* A fetchExternalJobs without the inner try: a throw of the Adzuna fetch
\* reaches the outer catch, which returns [].
AdzunaSettlesThrowEndsFetch ==
    /\ page.ext.pc = "adzuna"
    /\ LET jobs == Pushed(upstream.adzuna)
       IN  IF upstream.adzuna.kind = "throw"
           THEN page' = [page EXCEPT !.ext = [pc |-> "settled", jobs |-> <<>>, val |-> <<>>,
                                                st |-> "fulfilled"]]
           ELSE IF Len(jobs) = 0
           THEN page' = [page EXCEPT !.ext = [pc |-> "serp", jobs |-> jobs, val |-> <<>>, st |-> "pending"]]
           ELSE \E v \in Shuffles(jobs) :
                  page' = [page EXCEPT !.ext = [pc |-> "settled", jobs |-> jobs, val |-> v,
                                               st |-> "fulfilled"]]
    /\ UNCHANGED <<storage, db, rd, ret, net, created, hist, upstream, otherVars>>

\* fetchExternalJobs from the Adzuna fetch to its next await or its return:
\* the Adzuna jobs are collected; with none collected the SerpApi endpoint
\* is asked, else the shuffled jobs are returned.
AdzunaSettles ==
    /\ page.ext.pc = "adzuna"
    /\ LET jobs == Pushed(upstream.adzuna)
       IN  IF Len(jobs) = 0
           THEN page' = [page EXCEPT !.ext = [pc |-> "serp", jobs |-> jobs, val |-> <<>>, st |-> "pending"]]
           ELSE \E v \in Shuffles(jobs) :
                  page' = [page EXCEPT !.ext = [pc |-> "settled", jobs |-> jobs, val |-> v,
                                               st |-> "fulfilled"]]
    /\ UNCHANGED <<storage, db, rd, ret, net, created, hist, upstream, otherVars>>

\* fetchExternalJobs from the SerpApi fetch to its return.
SerpSettles ==
    /\ page.ext.pc = "serp"
    /\ LET jobs == page.ext.jobs \o Pushed(upstream.serp)
       IN  \E v \in Shuffles(jobs) :
             page' = [page EXCEPT !.ext = [pc |-> "settled", jobs |-> jobs, val |-> v,
                                               st |-> "fulfilled"]]
    /\ UNCHANGED <<storage, db, rd, ret, net, created, hist, upstream, otherVars>>

\* --------------------------------------------------------- the jobs page
\* JobsPage before its first effect: useState defaults.
NewPage(role) ==
    [pc |-> "idle", loading |-> TRUE, allJobs |-> <<>>, appliedJobs |-> <<>>,
     set |-> FALSE, role |-> role, ext |-> NoFetch, category |-> "All"]

\* const categories = ['All', 'Engineering', 'Design', 'Marketing', 'Sales', 'Product']
categories == {"All", "Engineering", "Design", "Marketing", "Sales", "Product"}

\* A category button of the jobs page: onClick={() => setCategory(cat)}
setCategory ==
    /\ \E cat \in categories : page' = [page EXCEPT !.category = cat]
    /\ page' # page
    /\ UNCHANGED <<storage, db, rd, ret, net, created, hist, upstream, otherVars>>

\* A filter for which 'All' is a category like the others.
filteredNoBypass(allJobs, category) ==
    LET Match(j) == j.category = category
    IN  SelectSeq(allJobs, Match)

\* category === 'All' ? allJobs : allJobs.filter(j => j.category === category)
filtered(allJobs, category) ==
    LET Match(j) == j.category = category
    IN  IF category = "All" THEN allJobs ELSE SelectSeq(allJobs, Match)

\* The list the jobs page renders.
filteredJobs == filtered(page.allJobs, page.category)

RECURSIVE JobIdsOf(_, _)
\* allApps.filter(app => app.candidateId === uid).map(app => app.jobId)
JobIdsOf(apps, uid) ==
    IF apps = <<>> THEN <<>>
    ELSE IF Head(apps).candidateId = uid
         THEN <<Head(apps).jobId>> \o JobIdsOf(Tail(apps), uid)
         ELSE JobIdsOf(Tail(apps), uid)

\* fetchJobsAndApps up to its first await: setLoading(true), then
\* Promise.allSettled over apiGetStoredJobs() and fetchExternalJobs(query),
\* both started here.
fetchJobsAndApps ==
    /\ page.pc = "idle"
    /\ page.ext.pc = "idle"
    /\ CallRead("jobs", getLocalJobs)
    /\ page' = [page EXCEPT !.pc = "fetching", !.loading = TRUE, !.set = FALSE,
                            !.ext = [pc |-> "adzuna", jobs |-> <<>>, val |-> <<>>, st |-> "pending"]]
    /\ UNCHANGED <<storage, db, ret, net, created, upstream, otherVars>>

\* A join that puts the external jobs first.
JoinedExternalFirst(posted, external) ==
    LET postedJobs == IF posted.st = "fulfilled" THEN posted.val ELSE Arr(<<>>)
    IN  IF IsArray(postedJobs) THEN Returned(Arr(external \o postedJobs.items))
        ELSE Threw

\* [...postedJobs, ...externalJobs], postedJobs being the value of the read
\* or [] when it was rejected (externalJobs likewise); spreading a value
\* that is no array throws.
Joined(posted, external) ==
    LET postedJobs == IF posted.st = "fulfilled" THEN posted.val ELSE Arr(<<>>)
    IN  IF IsArray(postedJobs) THEN Returned(Arr(postedJobs.items \o external))
        ELSE Threw

\* fetchJobsAndApps once both promises have settled: setAllJobs; a
\* candidate's applications are then read; any throw is logged, and
\* finally setLoading(false).
JobsSettled ==
    /\ page.pc = "fetching"
    /\ rd["jobs"].pc = "idle"
    /\ page.ext.pc = "settled"
    /\ LET all == Joined(ret["jobs"],
                         IF page.ext.st = "fulfilled" THEN page.ext.val ELSE <<>>)
       IN  IF all.st = "rejected"
           THEN /\ page' = [page EXCEPT !.pc = "idle", !.loading = FALSE, !.ext = NoFetch]
                /\ UNCHANGED <<rd, hist>>
           ELSE IF page.role = "candidate"
           THEN /\ page' = [page EXCEPT !.pc = "apps", !.allJobs = all.val.items,
                                        !.set = TRUE, !.ext = NoFetch]
                /\ CallRead("applications", getLocalApplications)
           ELSE /\ page' = [page EXCEPT !.pc = "idle", !.allJobs = all.val.items,
                                        !.set = TRUE, !.loading = FALSE, !.ext = NoFetch]
                /\ UNCHANGED <<rd, hist>>
    /\ UNCHANGED <<storage, db, ret, net, created, upstream, otherVars>>

\* fetchJobsAndApps once the applications are read: setAppliedJobs (a value
\* that is no array throws in .filter, which the inner catch ignores), and
\* finally setLoading(false).
AppsSettled ==
    /\ page.pc = "apps"
    /\ rd["applications"].pc = "idle"
    /\ LET allApps == ret["applications"]
       IN  page' = [page EXCEPT
                      !.pc = "idle", !.loading = FALSE,
                      !.appliedJobs = IF allApps.st = "fulfilled" /\ IsArray(allApps.val)
                                      THEN JobIdsOf(allApps.val.items, "u1") ELSE @]
    /\ UNCHANGED <<storage, db, rd, ret, net, created, hist, upstream, otherVars>>

\* ------------------------------------------------------ the write helpers
\* apiAddPostedJob, apiDeletePostedJob, apiAddApplication,
\* apiUpdateApplicationStatus and apiSaveProfile, statement by statement:
\* the local write, the fetch, what comes back, the return.
Uids == {"u1"}
Roles == {"candidate", "recruiter"}
\* A profile (types.ts UserProfile); no profile: null.
Profile(u, r, n) == [uid |-> u, role |-> r, name |-> n]
NoProfile == [uid |-> "", role |-> "none", name |-> ""]
NoProfiles == [local |-> [u \in Uids |-> NoProfile], remote |-> [u \in Uids |-> NoProfile],
               intended |-> "none"]

NoCall == [op |-> "none", arg |-> [id |-> 0], pc |-> "idle", resp |-> "none",
           warned |-> FALSE, st |-> "none"]

\* The helpers write the local lists only when what they read is a list:
\* spreading, filtering or mapping another value throws.
CanWriteLocal(op) ==
    CASE op \in {"addJob", "deleteJob"} -> IsArray(getLocalJobs)
      [] op \in {"addApplication", "updateStatus"} -> IsArray(getLocalApplications)
      [] op = "saveProfile" -> TRUE

\* localApps.map(a => a.id === id ? {...a, status} : a)
WithStatus(apps, id, status) ==
    [i \in DOMAIN apps |-> IF apps[i].id = id THEN [apps[i] EXCEPT !.status = status]
                           ELSE apps[i]]

\* A helper that leaves the local store as it is.
WriteLocalNothing(op, arg) == UNCHANGED <<storage, profiles>>

\* The first statements of each helper: the write to localStorage.
WriteLocal(op, arg) ==
    CASE op = "addJob" ->
           /\ storage' = saveLocalJobs(getLocalJobs.items \o <<arg>>)
           /\ UNCHANGED profiles
      [] op = "deleteJob" ->
           /\ storage' = saveLocalJobs(Without(getLocalJobs.items, arg.id))
           /\ UNCHANGED profiles
      [] op = "addApplication" ->
           /\ storage' = saveLocalApplications(getLocalApplications.items \o <<arg>>)
           /\ UNCHANGED profiles
      [] op = "updateStatus" ->
           /\ storage' = saveLocalApplications(
                            WithStatus(getLocalApplications.items, arg.id, arg.status))
           /\ UNCHANGED profiles
      [] op = "saveProfile" ->
           /\ profiles' = [profiles EXCEPT !.local[arg.uid] = arg]
           /\ UNCHANGED storage

\* A helper is called: its local write is done (or throws, and the promise
\* is rejected with nothing written or sent).
Begin(op, arg) ==
    /\ call.pc = "idle"
    /\ IF CanWriteLocal(op)
       THEN /\ WriteLocal(op, arg)
            /\ call' = [op |-> op, arg |-> arg, pc |-> "local", resp |-> "none",
                        warned |-> FALSE, st |-> "pending"]
       ELSE /\ call' = [op |-> op, arg |-> arg, pc |-> "done", resp |-> "none",
                        warned |-> FALSE, st |-> "rejected"]
            /\ UNCHANGED <<storage, profiles>>

\* EmployerDashboard.handleCreateJob -> apiAddPostedJob(jobData)
createJobBegins ==
    /\ page.role = "recruiter"
    /\ created < MaxOwn
    /\ \E c \in PostCategories : Begin("addJob", PostedJob(MaxForeign + created + 1, c))
    /\ created' = created + 1
    /\ UNCHANGED <<db, rd, ret, net, hist, pageVars, auth, chat, search,
                   runs, widget, voice, thread, desk>>

\* EmployerDashboard.handleDeleteJob -> apiDeletePostedJob(jobId)
deleteJobBegins ==
    /\ page.role = "recruiter"
    /\ \E id \in IdsOf(getLocalJobs.items) \cup IdsOf(db["jobs"]) : Begin("deleteJob", [id |-> id])
    /\ UNCHANGED <<db, rd, ret, net, created, hist, pageVars, auth, chat, search,
                   runs, widget, voice, thread, desk>>

\* JobsPage.handleApply / confirmExternalApplication -> apiAddApplication,
\* with a fresh id and status 'pending'; the page offers it once per job.
applyBegins ==
    /\ page.role = "candidate"
    /\ 2 \notin IdsOf(getLocalApplications.items)
    /\ Begin("addApplication", App(2, 1, "u1", "pending"))
    /\ UNCHANGED <<db, rd, ret, net, created, hist, pageVars, auth, chat, search,
                   runs, widget, voice, thread, desk>>

\* The buttons of an applicant's card: Accept, Reject, On Hold.
ButtonStatuses == {"accepted", "rejected", "on_hold"}

\* EmployerDashboard.updateApplicationStatus(app.id, newStatus), from a
\* button of the card of an application the dashboard lists.
updateApplicationStatus ==
    /\ page.role = "recruiter"
    /\ \E id \in IdsOf(getLocalApplications.items) \cup IdsOf(db["applications"]), s \in ButtonStatuses :
          Begin("updateStatus", [id |-> id, status |-> s])
    /\ hist' = [hist EXCEPT !.updated = NoHistory.updated]
    /\ UNCHANGED <<db, rd, ret, net, created, pageVars, auth, chat, search,
                   runs, widget, voice, thread, desk>>

\* App.fetchProfile -> apiSaveProfile(newProfile), for someone signed in
\* who has no profile yet.
saveProfileBegins ==
    /\ page.role = "none"
    /\ \E u \in Uids, r \in Roles : Begin("saveProfile", Profile(u, r, "User"))
    /\ UNCHANGED <<db, rd, ret, net, created, hist, pageVars, auth, chat, search,
                   runs, widget, voice, thread, desk>>

\* await fetch(url, {method, body, signal: AbortSignal.timeout(API_TIMEOUT)})
\* is reached: the request leaves.
IssueRequest ==
    /\ call.pc = "local"
    /\ call' = [call EXCEPT !.pc = "sent"]
    /\ UNCHANGED <<storage, db, rd, ret, net, created, hist, pageVars, profiles,
                   auth, chat, search,
                   runs, widget, voice, thread, desk>>

\* What the handler of the request does to the remote store when the
\* database accepts it: upsert, delete().eq('id'), update(body).eq('id').
Applied(op, arg) ==
    CASE op = "addJob" -> [db EXCEPT !["jobs"] = Upsert(@, arg)]
      [] op = "deleteJob" -> [db EXCEPT !["jobs"] = Without(@, arg.id)]
      [] op = "addApplication" -> [db EXCEPT !["applications"] = Upsert(@, arg)]
      [] op = "updateStatus" ->
           [db EXCEPT !["applications"] = WithStatus(@, arg.id, arg.status)]
      [] op = "saveProfile" -> db
AppliedProfiles(op, arg) ==
    IF op = "saveProfile" THEN [profiles EXCEPT !.remote[arg.uid] = arg] ELSE profiles

\* How a request of a helper can end: 200; a status that is not ok (the
\* handlers answer 500 on a database error); the fetch throws for a
\* transport error; AbortSignal.timeout aborts it after API_TIMEOUT.
Outcomes == {"ok", "status", "throw", "timeout"}

\* try { await fetch(...) } catch { console.warn(...) }: the response is
\* not looked at; the catch runs when the fetch throws.
Awaited(outcome) ==
    [call EXCEPT !.pc = "done", !.resp = outcome, !.st = "fulfilled",
                 !.warned = outcome \in {"throw", "timeout"}]

\* The request ends. The handler has changed the remote store when it
\* answers 200; it may have when the browser gave up waiting.
RequestSettles ==
    /\ call.pc = "sent"
    /\ \E outcome \in Outcomes :
         /\ call' = Awaited(outcome)
         /\ \E done \in IF outcome = "ok" THEN {TRUE}
                        ELSE IF outcome = "timeout" THEN {TRUE, FALSE} ELSE {FALSE} :
              /\ db' = IF done THEN Applied(call.op, call.arg) ELSE db
              /\ profiles' = IF done THEN AppliedProfiles(call.op, call.arg) ELSE profiles
    /\ UNCHANGED <<storage, rd, ret, net, created, hist, pageVars, auth, chat, search,
                   runs, widget, voice, thread, desk>>

\* The helper's promise has settled and its caller goes on.
CallReturns ==
    /\ call.pc = "done"
    /\ call' = NoCall
    /\ hist' = IF call.op = "updateStatus" /\ call.st = "fulfilled"
               THEN [hist EXCEPT !.updated = call.arg] ELSE hist
    /\ UNCHANGED <<storage, db, rd, ret, net, created, pageVars, profiles,
                   auth, chat, search,
                   runs, widget, voice, thread, desk>>

\* ------------------------------------------------------------- sign-in
\* App before anyone has signed in: useState defaults.
SignedOut == [pc |-> "idle", user |-> "none", userProfile |-> NoProfile,
              checking |-> TRUE, newProfile |-> NoProfile]

\* The join page's role buttons: localStorage.setItem('intendedRole', role)
chooseRole ==
    /\ auth.user = "none"
    /\ auth.pc = "idle"
    /\ \E role \in Roles : profiles' = [profiles EXCEPT !.intended = role]
    /\ profiles' # profiles
    /\ UNCHANGED <<storage, db, rd, ret, net, created, hist, pageVars, call, auth,
                   chat, search,
                   runs, widget, voice, thread, desk>>

\* App.fetchProfile when someone has signed in: setCheckingProfile(true),
\* then apiGetStoredProfile(user.id) up to its fetch.
signIn ==
    /\ auth.user = "none"
    /\ auth.pc = "idle"
    /\ \E u \in Uids :
          auth' = [auth EXCEPT !.user = u, !.pc = "getting", !.checking = TRUE]
    /\ UNCHANGED <<storage, db, rd, ret, net, created, hist, pageVars, profiles, call,
                   chat, search,
                   runs, widget, voice, thread, desk>>

\* GET /api/db/profiles/:uid: the row, or null.
\* apiGetStoredProfile after its fetch: a profile that came back is cached
\* locally and returned; with anything else (a status that is not ok, a
\* throw, null) the local profile of the uid is returned, or null.
apiGetStoredProfile(uid, outcome) ==
    IF outcome = "ok" /\ profiles.remote[uid] # NoProfile
    THEN [local |-> [profiles.local EXCEPT ![uid] = profiles.remote[uid]],
          val |-> profiles.remote[uid]]
    ELSE [local |-> profiles.local, val |-> profiles.local[uid]]

\* The profile fetchProfile builds for someone it found no profile for.
DefaultName == "User"
newProfile(uid) ==
    Profile(uid, IF profiles.intended = "none" THEN "candidate" ELSE profiles.intended,
            DefaultName)

\* fetchProfile once apiGetStoredProfile has returned: the profile found
\* is set; with none found a new one is built and handed to apiSaveProfile,
\* which saves it locally and sends it.
profileFetched ==
    /\ auth.pc = "getting"
    /\ \E outcome \in Outcomes :
         LET got == apiGetStoredProfile(auth.user, outcome)
         IN  IF got.val # NoProfile
             THEN /\ auth' = [auth EXCEPT !.pc = "idle", !.userProfile = got.val,
                                          !.checking = FALSE]
                  /\ profiles' = [profiles EXCEPT !.local = got.local]
             ELSE /\ auth' = [auth EXCEPT !.pc = "saving",
                                          !.newProfile = newProfile(auth.user)]
                  /\ profiles' = [profiles EXCEPT
                                    !.local = [got.local EXCEPT
                                                 ![auth.user] = newProfile(auth.user)]]
    /\ UNCHANGED <<storage, db, rd, ret, net, created, hist, pageVars, call, chat, search,
                   runs, widget, voice, thread, desk>>

\* fetchProfile once apiSaveProfile has returned: POST /api/db/profiles
\* has upserted the profile, or has not; the new profile is set and
\* intendedRole removed.
profileSaved ==
    /\ auth.pc = "saving"
    /\ \E outcome \in Outcomes :
         \E done \in IF outcome = "ok" THEN {TRUE}
                     ELSE IF outcome = "timeout" THEN {TRUE, FALSE} ELSE {FALSE} :
            profiles' = [profiles EXCEPT
                           !.remote[auth.user] = IF done THEN auth.newProfile ELSE @,
                           !.intended = "none"]
    /\ auth' = [auth EXCEPT !.pc = "idle", !.userProfile = auth.newProfile,
                            !.newProfile = NoProfile, !.checking = FALSE]
    /\ UNCHANGED <<storage, db, rd, ret, net, created, hist, pageVars, call, chat, search,
                   runs, widget, voice, thread, desk>>

\* fetchProfile when nobody is signed in any more: setUserProfile(null).
signOut ==
    /\ auth.user # "none"
    /\ auth.pc = "idle"
    /\ auth' = [auth EXCEPT !.user = "none", !.userProfile = NoProfile, !.checking = FALSE]
    /\ UNCHANGED <<storage, db, rd, ret, net, created, hist, pageVars, profiles, call,
                   chat, search,
                   runs, widget, voice, thread, desk>>

\* ---------------------------------------------------------------- chat
\* POST /api/chat of the Express server, POST /api/voice-chat of the
\* Express server, and the serverless handler api/chat.
ChatRoutes == {"chat", "voice-chat", "api/chat"}

\* The Express routes are registered with app.post; the serverless handler
\* is handed every method.
ChatMethods(route) == IF route = "api/chat" THEN {"POST", "OPTIONS", "GET"} ELSE {"POST"}

\* What a client sends: no body at all, or a JSON object with no message
\* member, an empty message or a message.
NoMessage == "undefined"
SentBodies == {[t |-> "nothing", message |-> NoMessage],
               [t |-> "object", message |-> NoMessage],
               [t |-> "object", message |-> ""],
               [t |-> "object", message |-> "hi"]}

\* req.body as the handler finds it. A JSON object arrives as the object.
\* With nothing sent the serverless runtime leaves req.body without value;
\* express.json() leaves it an empty object or without value, depending on
\* the Express release the server is installed with.
reqBody(route, sent) ==
    IF sent.t = "object" THEN {sent}
    ELSE IF route = "api/chat" THEN {[t |-> "undefined", message |-> NoMessage]}
    ELSE {[t |-> "object", message |-> NoMessage],
          [t |-> "undefined", message |-> NoMessage]}

NoChat == [pc |-> "idle", route |-> "chat", method |-> "POST",
           sent |-> [t |-> "nothing", message |-> NoMessage],
           body |-> [t |-> "undefined", message |-> NoMessage],
           key |-> FALSE, status |-> 0, error |-> FALSE, calls |-> 0, served |-> 0]

MaxChats == 2

\* A request reaches one of the handlers; GEMINI_API_KEY is set or is not.
chatArrives ==
    /\ chat.pc = "idle"
    /\ chat.served < MaxChats
    /\ \E route \in ChatRoutes, sent \in SentBodies, key \in BOOLEAN :
         \E method \in ChatMethods(route), body \in reqBody(route, sent) :
            chat' = [pc |-> "received", route |-> route, method |-> method,
                     sent |-> sent, body |-> body, key |-> key,
                     status |-> 0, error |-> FALSE, calls |-> 0, served |-> chat.served]
    /\ UNCHANGED <<storage, db, rd, ret, net, created, hist, pageVars, profiles, call,
                   auth, search,
                   runs, widget, voice, thread, desk>>

\* !message
Falsy(message) == message \in {NoMessage, ""}

\* The handler's try block up to its await: const { message } = req.body
\* throws into the catch when req.body has no value; a falsy message is
\* answered 400; without GEMINI_API_KEY the set-up reply is sent;
\* otherwise the generative-language API is called.
validated(c) ==
    IF c.body.t = "undefined"
    THEN [c EXCEPT !.pc = "responded", !.status = 500, !.error = TRUE]
    ELSE IF Falsy(c.body.message)
    THEN [c EXCEPT !.pc = "responded", !.status = 400, !.error = TRUE]
    ELSE IF ~c.key
    THEN [c EXCEPT !.pc = "responded", !.status = 200]
    ELSE [c EXCEPT !.pc = "calling", !.calls = 1]

\* The handler from its start to its first await or its response; the
\* serverless handler answers OPTIONS and other methods first.
chatHandled ==
    /\ chat.pc = "received"
    /\ chat' = IF chat.method = "OPTIONS"
               THEN [chat EXCEPT !.pc = "responded", !.status = 200]
               ELSE IF chat.method # "POST"
               THEN [chat EXCEPT !.pc = "responded", !.status = 405, !.error = TRUE]
               ELSE validated(chat)
    /\ UNCHANGED <<storage, db, rd, ret, net, created, hist, pageVars, profiles, call,
                   auth, search,
                   runs, widget, voice, thread, desk>>

\* generateContent (the SDK in the Express routes, fetch in the serverless
\* handler) settles: a reply, a status that is not ok, or a throw.
generativeAnswers ==
    /\ chat.pc = "calling"
    /\ \E outcome \in {"ok", "status", "throw"} :
          chat' = IF outcome = "ok"
                  THEN [chat EXCEPT !.pc = "responded", !.status = 200]
                  ELSE [chat EXCEPT !.pc = "responded", !.status = 500, !.error = TRUE]
    /\ UNCHANGED <<storage, db, rd, ret, net, created, hist, pageVars, profiles, call,
                   auth, search,
                   runs, widget, voice, thread, desk>>

\* The response has gone out.
chatEnds ==
    /\ chat.pc = "responded"
    /\ chat' = [NoChat EXCEPT !.served = chat.served + 1]
    /\ UNCHANGED <<storage, db, rd, ret, net, created, hist, pageVars, profiles, call,
                   auth, search,
                   runs, widget, voice, thread, desk>>

\* ------------------------------------------------------- listing search
\* req.query.pages: absent, or a text of a few characters.
MaxPagesLen == 2
PageChars == {"-", "0", "1", "2", "3", "4", "a"}
Digits == {"0", "1", "2", "3", "4"}
DigitValue(c) == CASE c = "0" -> 0 [] c = "1" -> 1 [] c = "2" -> 2
                   [] c = "3" -> 3 [] c = "4" -> 4
PagesTexts == UNION {[1..n -> PageChars] : n \in 0..MaxPagesLen}
NoPages == <<"undefined">>
PagesParams == PagesTexts \cup {NoPages}

\* The value of the longest run of digits at the start of a text, and the
\* length of that run.
RECURSIVE LeadingDigits(_, _, _)
LeadingDigits(text, i, acc) ==
    IF i > Len(text) \/ text[i] \notin Digits
    THEN [value |-> acc, len |-> i - 1]
    ELSE LeadingDigits(text, i + 1, 10 * acc + DigitValue(text[i]))

\* parseInt: an optional sign, then the leading digits; NaN with no digit.
NaN == [nan |-> TRUE, value |-> 0]
Unsigned(text) == IF Len(text) > 0 /\ text[1] = "-" THEN Tail(text) ELSE text
parseInt(text) ==
    IF text = NoPages THEN NaN
    ELSE LET run == LeadingDigits(Unsigned(text), 1, 0)
         IN  IF run.len = 0 THEN NaN
             ELSE [nan |-> FALSE,
                   value |-> IF Unsigned(text) # text THEN 0 - run.value ELSE run.value]

\* Math.min(parseInt(req.query.pages) || 1, 3)
PageCap == 3
Min(a, b) == IF a < b THEN a ELSE b
maxPages(text) ==
    LET n == parseInt(text)
    IN  Min(IF n.nan \/ n.value = 0 THEN 1 ELSE n.value, PageCap)

\* serpapi_pagination.next_page_token of a page: a token, or none.
NoToken == "null"
Tokens == {"t1", "t2"}

\* A title is its words in order; the words have single spaces between.
TitleWords == {"Senior", "UX", "Designer", "Software", "Engineer", "Product", "Data",
               "Analyst", "Sales", "Marketing", "Intern", "Recruiter", "Clerk",
               "Project", "Manager"}

\* String.toLowerCase, word by word.
toLowerCase(title) ==
    [i \in DOMAIN title |->
       CASE title[i] = "Senior" -> "senior" [] title[i] = "UX" -> "ux"
         [] title[i] = "Designer" -> "designer" [] title[i] = "Software" -> "software"
         [] title[i] = "Engineer" -> "engineer" [] title[i] = "Product" -> "product"
         [] title[i] = "Data" -> "data" [] title[i] = "Analyst" -> "analyst"
         [] title[i] = "Sales" -> "sales" [] title[i] = "Marketing" -> "marketing"
         [] title[i] = "Intern" -> "intern" [] title[i] = "Recruiter" -> "recruiter"
         [] title[i] = "Clerk" -> "clerk" [] title[i] = "Project" -> "project"
         [] title[i] = "Manager" -> "manager" [] OTHER -> title[i]]

\* The texts without a space that occur inside a lower-case word, among
\* those detectCategory looks for: the word itself, and what is inside
\* designer, marketing and recruiter.
Inside(word) ==
    {word} \cup (CASE word = "designer" -> {"design"}
                  [] word = "marketing" -> {"market"}
                  [] word = "recruiter" -> {"ui"}
                  [] OTHER -> {})

\* String.includes: a text without a space occurs inside one word; a text
\* of several words occurs as these words in a row (none of the title
\* words has another one at its end or start).
includes(t, text) ==
    \E i \in DOMAIN t :
       IF Len(text) = 1 THEN text[1] \in Inside(t[i])
       ELSE \A j \in DOMAIN text : i + j - 1 <= Len(t) /\ t[i + j - 1] = text[j]

includesAny(t, texts) == \E text \in texts : includes(t, text)

\* The texts of each line of detectCategory.
EngineeringTexts == {<<"engineer">>, <<"developer">>, <<"software">>, <<"devops">>,
                     <<"backend">>, <<"frontend">>, <<"full", "stack">>}
DesignTexts == {<<"design">>, <<"ui">>, <<"ux">>, <<"graphic">>}
MarketingTexts == {<<"market">>, <<"seo">>, <<"content">>, <<"social", "media">>}
SalesTexts == {<<"sales">>, <<"business", "development">>, <<"account">>}
ProductTexts == {<<"product">>, <<"project", "manager">>, <<"scrum">>}
DataTexts == {<<"data">>, <<"analyst">>, <<"machine", "learning">>, <<"ai">>}
InternTexts == {<<"intern">>}

\* A detectCategory that looks for the design texts first.
detectCategoryDesignFirst(title) ==
    LET t == toLowerCase(title)
    IN  IF includesAny(t, DesignTexts) THEN "Design"
        ELSE IF includesAny(t, EngineeringTexts) THEN "Engineering"
        ELSE IF includesAny(t, MarketingTexts) THEN "Marketing"
        ELSE IF includesAny(t, SalesTexts) THEN "Sales"
        ELSE IF includesAny(t, ProductTexts) THEN "Product"
        ELSE IF includesAny(t, DataTexts) THEN "Engineering"
        ELSE IF includesAny(t, InternTexts) THEN "Engineering"
        ELSE "Other"

detectCategory(title) ==
    LET t == toLowerCase(title)
    IN  IF includesAny(t, EngineeringTexts) THEN "Engineering"
        ELSE IF includesAny(t, DesignTexts) THEN "Design"
        ELSE IF includesAny(t, MarketingTexts) THEN "Marketing"
        ELSE IF includesAny(t, SalesTexts) THEN "Sales"
        ELSE IF includesAny(t, ProductTexts) THEN "Product"
        ELSE IF includesAny(t, DataTexts) THEN "Engineering"
        ELSE IF includesAny(t, InternTexts) THEN "Engineering"
        ELSE "Other"

\* A description is its pieces in order: currency signs, blanks, amounts,
\* the signs and words of a range, per and its periods, other words. The
\* pattern of extractSalary takes each of these pieces whole or not at all.
CurrencySigns == {"Rs.", "Rs", "INR", "USD", "$"}
Blank == " "
Amounts == {"50,000", "70,000"}
RangeSigns == {"-", "to"}
Pers == {"per", "/"}
Periods == {"month", "annum", "year", "hr", "hour"}

\* \s*: the place after the blanks from place i on.
RECURSIVE SkipBlanks(_, _)
SkipBlanks(desc, i) ==
    IF i <= Len(desc) /\ desc[i] = Blank THEN SkipBlanks(desc, i + 1) ELSE i

\* [\d,]+ and [-to]+: the place after the pieces of one kind from place i
\* on; i itself when there is none.
RECURSIVE SkipOver(_, _, _)
SkipOver(desc, i, kind) ==
    IF i <= Len(desc) /\ desc[i] \in kind THEN SkipOver(desc, i + 1, kind) ELSE i

\* An amount range without its second currency sign or per-period part.
matchAtAmountOnly(desc, i) ==
    IF desc[i] \notin CurrencySigns THEN 0
    ELSE LET amount == SkipBlanks(desc, i + 1)
             first == SkipOver(desc, amount, Amounts)
         IN  IF first = amount THEN 0 ELSE first

\* The pattern tried at place i: a currency sign, blanks, an amount; then,
\* when they follow, blanks, range signs, blanks, a currency sign or none,
\* blanks, an amount; then, when they follow, blanks, per, blanks, a
\* period. The place after the match, or 0 without a match.
matchAt(desc, i) ==
    IF desc[i] \notin CurrencySigns THEN 0
    ELSE LET amount == SkipBlanks(desc, i + 1)
             first == SkipOver(desc, amount, Amounts)
             signs == SkipBlanks(desc, first)
             upto == SkipOver(desc, signs, RangeSigns)
             sign2 == SkipBlanks(desc, upto)
             amount2 == SkipBlanks(desc, IF sign2 <= Len(desc) /\ desc[sign2] \in CurrencySigns
                                         THEN sign2 + 1 ELSE sign2)
             second == SkipOver(desc, amount2, Amounts)
             range == IF upto > signs /\ second > amount2 THEN second ELSE first
             per == SkipBlanks(desc, range)
             period == SkipBlanks(desc, per + 1)
         IN  IF first = amount THEN 0
             ELSE IF per <= Len(desc) /\ desc[per] \in Pers
                     /\ period <= Len(desc) /\ desc[period] \in Periods
             THEN period + 1
             ELSE range

\* detected_extensions.salary: not there, or a text.
NoSalary == [t |-> "undefined", text |-> <<>>]
SalaryText(text) == [t |-> "string", text |-> text]
NotSpecified == <<"Not specified">>

\* desc.match(...): salaryMatch[0] of the first place with a match.
extractSalary(job) ==
    LET desc == job.description
        places == {i \in DOMAIN desc : matchAt(desc, i) # 0}
        place == CHOOSE i \in places : \A j \in places : i <= j
    IN  IF job.salary.t = "string" /\ job.salary.text # <<>> THEN job.salary.text
        ELSE IF places # {} THEN SubSeq(desc, place, matchAt(desc, place) - 1)
        ELSE NotSpecified

\* A result of the provider: its title, detected_extensions.salary and
\* description.
ProviderJob(title, salary, description) ==
    [title |-> title, salary |-> salary, description |-> description]

\* The job the handler makes of a result of the provider.
mapped(job) ==
    [title |-> job.title, salary |-> extractSalary(job),
     category |-> detectCategory(job.title), isExternal |-> TRUE]

\* data.jobs_results of a page: a few results of the provider.
MaxResults == 1
ProviderJobs == {ProviderJob(<<"UX", "Designer">>, SalaryText(<<"12 LPA">>), <<>>),
                 ProviderJob(<<"Clerk">>, NoSalary, <<"Pay:", " ", "$", "50,000">>)}
JobResults == UNION {[1..n -> ProviderJobs] : n \in 0..MaxResults}

\* A handler that starts every page with an empty list.
pushedFresh(allJobs, jobResults) ==
    [i \in 1..Len(jobResults) |-> mapped(jobResults[i])]

\* for (const job of jobResults) allJobs.push({...})
pushed(allJobs, jobResults) ==
    allJobs \o [i \in 1..Len(jobResults) |-> mapped(jobResults[i])]

\* The for loop over the results of a page that has come back.
resultsPushed ==
    /\ search.pc = "mapping"
    /\ search' = [search EXCEPT !.pc = "mapped",
                                !.allJobs = pushed(@, search.got[Len(search.got)])]
    /\ UNCHANGED <<storage, db, rd, ret, net, created, hist, pageVars, profiles, call,
                   auth, chat,
                   runs, widget, voice, thread, desk>>

\* The body of a response: the success response with the jobs collected,
\* or the error of the catch.
NoBody == [success |-> FALSE, count |-> 0, jobs |-> <<>>]
jobsResponse(allJobs) == [success |-> TRUE, count |-> Len(allJobs), jobs |-> allJobs]

NoSearch == [pc |-> "idle", handler |-> "express", key |-> TRUE, pages |-> NoPages,
             maxPages |-> 0, page |-> 0, nextPageToken |-> NoToken,
             requests |-> <<>>, returned |-> <<>>, inflight |-> 0, status |-> 0,
             allJobs |-> <<>>, got |-> <<>>, body |-> NoBody]

\* GET /api/jobs/search reaches the Express route or the serverless
\* handler. The Express server does not start without SERPAPI_KEY; the
\* serverless handler looks for it on every request.
searchArrives ==
    /\ search.pc = "idle"
    /\ search.status = 0
    /\ \E handler \in {"express", "serverless"}, pages \in PagesParams, key \in BOOLEAN :
          /\ handler = "express" => key
          /\ search' = [NoSearch EXCEPT !.pc = "received", !.handler = handler,
                                        !.key = key, !.pages = pages]
    /\ UNCHANGED <<storage, db, rd, ret, net, created, hist, pageVars, profiles, call,
                   auth, chat,
                   runs, widget, voice, thread, desk>>

\* The top of the for loop: with page < maxPages a request is sent, with
\* next_page_token when nextPageToken is set; otherwise the loop is over
\* and the jobs collected are sent.
loopTop(s) ==
    IF s.page < s.maxPages
    THEN [s EXCEPT !.pc = "awaiting", !.requests = Append(@, s.nextPageToken),
                   !.inflight = @ + 1]
    ELSE [s EXCEPT !.pc = "responded", !.status = 200, !.body = jobsResponse(s.allJobs)]

\* The handler up to its first await.
searchBegins ==
    /\ search.pc = "received"
    /\ search' = IF ~search.key
                 THEN [search EXCEPT !.pc = "responded", !.status = 500]
                 ELSE loopTop([search EXCEPT !.maxPages = maxPages(search.pages)])
    /\ UNCHANGED <<storage, db, rd, ret, net, created, hist, pageVars, profiles, call,
                   auth, chat,
                   runs, widget, voice, thread, desk>>

\* The fetch of a page settles: a throw goes to the catch; a status that
\* is not ok breaks the loop; a page sets nextPageToken, breaks the loop
\* when it has none, and otherwise goes round the loop.
pageSettles ==
    /\ search.pc = "awaiting"
    /\ \E outcome \in {"throw", "status", "ok"}, token \in Tokens \cup {NoToken},
          jobResults \in JobResults :
         LET s == [search EXCEPT !.inflight = @ - 1]
             t == [s EXCEPT !.allJobs = pushed(@, jobResults),
                            !.got = Append(@, jobResults),
                            !.nextPageToken = token,
                            !.returned = Append(@, token)]
         IN  /\ outcome # "ok" => (token = NoToken /\ jobResults = <<>>)
             /\ search' =
                  CASE outcome = "throw" ->
                         [s EXCEPT !.pc = "responded", !.status = 500,
                                   !.returned = Append(@, "throw")]
                    [] outcome = "status" ->
                         [s EXCEPT !.pc = "responded", !.status = 200,
                                   !.returned = Append(@, "status"),
                                   !.body = jobsResponse(s.allJobs)]
                    [] outcome = "ok" /\ token = NoToken ->
                         [t EXCEPT !.pc = "responded", !.status = 200,
                                   !.body = jobsResponse(t.allJobs)]
                    [] OTHER ->
                         loopTop([t EXCEPT !.page = @ + 1])
    /\ UNCHANGED <<storage, db, rd, ret, net, created, hist, pageVars, profiles, call,
                   auth, chat,
                   runs, widget, voice, thread, desk>>

\* The response has gone out; what the request did stays on record.
searchEnds ==
    /\ search.pc = "responded"
    /\ search' = [search EXCEPT !.pc = "idle"]
    /\ UNCHANGED <<storage, db, rd, ret, net, created, hist, pageVars, profiles, call,
                   auth, chat,
                   runs, widget, voice, thread, desk>>

\* ------------------------------------------- the jobs page's aggregations
\* The search box, its debounced value and its timer; the (debouncedSearch,
\* category) the effect last ran for; the aggregations it started that have
\* not set the list yet.
NoDeps == <<"none", "none">>
NoRuns == [search |-> "", debounced |-> "", timer |-> FALSE, deps |-> NoDeps,
           inflight |-> {}]
SearchTerms == {"", "ux"}
MaxRuns == 2

\* The search box: onChange={(e) => setSearch(e.target.value)}; useDebounce
\* clears its timer and sets a new one.
setSearch ==
    /\ \E term \in SearchTerms \ {runs.search} :
          runs' = [runs EXCEPT !.search = term, !.timer = TRUE]
    /\ UNCHANGED <<storage, db, rd, ret, net, created, hist, pageVars, profiles, call,
                   auth, chat, search, widget, voice, thread, desk>>

\* useDebounce's timer fires after the delay: setDebouncedValue(value).
debounceFires ==
    /\ runs.timer
    /\ runs' = [runs EXCEPT !.debounced = runs.search, !.timer = FALSE]
    /\ UNCHANGED <<storage, db, rd, ret, net, created, hist, pageVars, profiles, call,
                   auth, chat, search, widget, voice, thread, desk>>

\* dynamicQuery of fetchJobsAndApps, as its words.
dynamicQuery(debouncedSearch, category) ==
    IF debouncedSearch # ""
    THEN <<debouncedSearch>> \o (IF category # "All" THEN <<category>> ELSE <<>>)
           \o <<"Jobs", "India">>
    ELSE IF category # "All" THEN <<category, "Jobs", "India">>
    ELSE <<"Developer", "OR", "Internship", "India">>

\* The effect of the jobs page runs after a render in which debouncedSearch
\* or category is not what it last ran for (and after the first render):
\* fetchJobsAndApps starts, whatever is still in flight.
effectRuns ==
    /\ runs.deps # <<runs.debounced, page.category>>
    /\ Cardinality(runs.inflight) < MaxRuns
    /\ runs' = [runs EXCEPT
                  !.deps = <<runs.debounced, page.category>>,
                  !.inflight = @ \cup {[n |-> CHOOSE n \in 1..MaxRuns :
                                                \A r \in runs.inflight : r.n # n,
                                        query |-> dynamicQuery(runs.debounced,
                                                               page.category)]}]
    /\ page' = [page EXCEPT !.loading = TRUE]
    /\ UNCHANGED <<storage, db, rd, ret, net, created, hist, upstream, profiles, call,
                   auth, chat, search, widget, voice, thread, desk>>

\* What the two sources give for a query: here one external job found
\* for it, which carries the query.
foundFor(query) ==
    <<[id |-> 101, category |-> "Engineering", isExternal |-> TRUE,
       externalSource |-> "Adzuna", query |-> query]>>

\* An aggregation in flight has both its promises settled:
\* setAllJobs([...postedJobs, ...externalJobs]) and setLoading(false).
\* Nothing tells an aggregation that a later one has started.
runSettles ==
    /\ \E r \in runs.inflight :
          /\ runs' = [runs EXCEPT !.inflight = @ \ {r}]
          /\ page' = [page EXCEPT !.allJobs = foundFor(r.query), !.set = TRUE,
                                  !.loading = FALSE]
    /\ UNCHANGED <<storage, db, rd, ret, net, created, hist, upstream, profiles, call,
                   auth, chat, search, widget, voice, thread, desk>>

\* -------------------------------------------------- the Chatbot widget
\* Chatbot's useState defaults: the welcome message, an empty input, not
\* loading. accepted counts the submissions that got past the guard.
Welcome == [role |-> "assistant", content |-> "welcome"]
NoWidget == [messages |-> <<Welcome>>, input |-> "", isLoading |-> FALSE,
             sent |-> "", accepted |-> 0]

\* What can be typed, and String.trim of it.
TypedInputs == {"", " ", "hi", " hi "}
trim(text) == CASE text = " " -> "" [] text = " hi " -> "hi" [] OTHER -> text

MaxSubmits == 3

\* The input field: onChange={(e) => setInput(e.target.value)}
setInput ==
    /\ \E text \in TypedInputs \ {widget.input} : widget' = [widget EXCEPT !.input = text]
    /\ UNCHANGED <<storage, db, rd, ret, net, created, hist, pageVars, profiles, call,
                   auth, chat, search, runs, voice, thread, desk>>

\* A handleSubmit that does not look at isLoading.
handleSubmitWhileLoading ==
    /\ widget.accepted < MaxSubmits
    /\ widget' = IF trim(widget.input) = "" THEN widget
                 ELSE [widget EXCEPT
                         !.input = "",
                         !.messages = Append(@, [role |-> "user",
                                                 content |-> trim(widget.input)]),
                         !.isLoading = TRUE,
                         !.sent = trim(widget.input),
                         !.accepted = @ + 1]
    /\ UNCHANGED <<storage, db, rd, ret, net, created, hist, pageVars, profiles, call,
                   auth, chat, search, runs, voice, thread, desk>>

\* Chatbot.handleSubmit up to its await (the form is submitted, by the
\* button or the Enter key): nothing for a blank input or while loading;
\* otherwise the input is cleared, the user's message appended, isLoading
\* set and POST /api/chat sent.
handleSubmit ==
    /\ widget.accepted < MaxSubmits
    /\ widget' = IF trim(widget.input) = "" \/ widget.isLoading THEN widget
                 ELSE [widget EXCEPT
                         !.input = "",
                         !.messages = Append(@, [role |-> "user",
                                                 content |-> trim(widget.input)]),
                         !.isLoading = TRUE,
                         !.sent = trim(widget.input),
                         !.accepted = @ + 1]
    /\ UNCHANGED <<storage, db, rd, ret, net, created, hist, pageVars, profiles, call,
                   auth, chat, search, runs, voice, thread, desk>>

\* How the request of the widget ends: a body with a reply; a body
\* without one (the error body of a 400 or 500); a throw of the fetch or
\* of response.json().
Replies == {"reply", "no reply", "throw"}

\* handleSubmit from its await on: the assistant's message is data.reply,
\* "I didn't quite catch that." without a reply, and the offline notice in
\* the catch; finally setIsLoading(false).
replyArrives ==
    /\ widget.isLoading
    /\ \E r \in Replies :
          widget' = [widget EXCEPT
                       !.messages = Append(@, [role |-> "assistant",
                                               content |-> CASE r = "reply" -> "reply"
                                                             [] r = "no reply" -> "not caught"
                                                             [] r = "throw" -> "offline"]),
                       !.isLoading = FALSE,
                       !.sent = ""]
    /\ UNCHANGED <<storage, db, rd, ret, net, created, hist, pageVars, profiles, call,
                   auth, chat, search, runs, voice, thread, desk>>

\* ------------------------------------------------ the voice interview
\* AIVoiceInterview's useState and useRef defaults; tasks are the calls of
\* startInterview and processAnswer that are waiting in an await; reset
\* tells that resetAll ran and startInterview has not been invoked since.
NoVoice == [phase |-> "idle", chatHistory |-> <<>>, liveTranscript |-> "",
            isProcessing |-> FALSE, isSpeechMuted |-> FALSE, tasks |-> {}, reset |-> FALSE]

MaxTasks == 2
MaxHistory == 3

\* A call waiting for sendToAI, with the history it will extend and the
\* isSpeechMuted of the render it was made in.
AiTask(kind, history) ==
    [n |-> CHOOSE n \in 1..MaxTasks : \A t \in voice.tasks : t.n # n,
     kind |-> kind, stage |-> "ai", history |-> history,
     isSpeechMuted |-> voice.isSpeechMuted]

\* The mute button, there while the interview is active.
toggleMute ==
    /\ voice.phase # "idle"
    /\ voice' = [voice EXCEPT !.isSpeechMuted = ~@]
    /\ UNCHANGED <<storage, db, rd, ret, net, created, hist, pageVars, profiles, call,
                   auth, chat, search, runs, widget, thread, desk>>

\* startInterview up to its await; its button is there while phase is idle.
startInterview ==
    /\ voice.phase = "idle"
    /\ Cardinality(voice.tasks) < MaxTasks
    /\ voice' = [voice EXCEPT !.phase = "processing", !.chatHistory = <<>>,
                              !.liveTranscript = "", !.isProcessing = TRUE,
                              !.tasks = @ \cup {AiTask("start", <<>>)},
                              !.reset = FALSE]
    /\ UNCHANGED <<storage, db, rd, ret, net, created, hist, pageVars, profiles, call,
                   auth, chat, search, runs, widget, thread, desk>>

\* rec.onresult with a final result, while the recognition runs.
heard ==
    /\ voice.phase = "listening"
    /\ voice.liveTranscript = ""
    /\ voice' = [voice EXCEPT !.liveTranscript = "answer"]
    /\ UNCHANGED <<storage, db, rd, ret, net, created, hist, pageVars, profiles, call,
                   auth, chat, search, runs, widget, thread, desk>>

\* submitAnswer (its button is there while phase is listening) and
\* processAnswer up to its await: nothing for a blank transcript or while
\* isProcessingRef is set.
submitAnswer ==
    /\ voice.phase = "listening"
    /\ Cardinality(voice.tasks) < MaxTasks
    /\ Len(voice.chatHistory) < MaxHistory
    /\ voice' = IF voice.liveTranscript = "" \/ voice.isProcessing THEN voice
                ELSE [voice EXCEPT
                        !.isProcessing = TRUE,
                        !.chatHistory = Append(@, "candidate"),
                        !.liveTranscript = "",
                        !.phase = "processing",
                        !.tasks = @ \cup {AiTask("answer",
                                                 Append(voice.chatHistory, "candidate"))}]
    /\ UNCHANGED <<storage, db, rd, ret, net, created, hist, pageVars, profiles, call,
                   auth, chat, search, runs, widget, thread, desk>>

\* sendToAI settles for a waiting call. With a reply the history becomes
\* the call's own history with the reply, phase 'speaking', and the reply
\* is spoken unless muted; without speech, and in the catch, the call
\* ends: phase 'listening' ('idle' in startInterview's catch) and
\* isProcessingRef cleared.
aiSettles ==
    /\ \E t \in voice.tasks, ok \in BOOLEAN :
          /\ t.stage = "ai"
          /\ voice' =
               IF ~ok
               THEN [voice EXCEPT !.phase = IF t.kind = "start" THEN "idle" ELSE "listening",
                                  !.isProcessing = FALSE,
                                  !.tasks = @ \ {t}]
               ELSE IF t.isSpeechMuted
               THEN [voice EXCEPT !.chatHistory = Append(t.history, "ai"),
                                  !.liveTranscript = "",
                                  !.phase = "listening",
                                  !.isProcessing = FALSE,
                                  !.tasks = @ \ {t}]
               ELSE [voice EXCEPT !.chatHistory = Append(t.history, "ai"),
                                  !.phase = "speaking",
                                  !.tasks = (@ \ {t}) \cup {[t EXCEPT !.stage = "speech"]}]
    /\ UNCHANGED <<storage, db, rd, ret, net, created, hist, pageVars, profiles, call,
                   auth, chat, search, runs, widget, thread, desk>>

\* speakText settles (utter.onend or utter.onerror, also after a cancel):
\* phase 'listening', the recognition restarts, isProcessingRef cleared.
speechEnds ==
    /\ \E t \in voice.tasks :
          /\ t.stage = "speech"
          /\ voice' = [voice EXCEPT !.liveTranscript = "", !.phase = "listening",
                                    !.isProcessing = FALSE, !.tasks = @ \ {t}]
    /\ UNCHANGED <<storage, db, rd, ret, net, created, hist, pageVars, profiles, call,
                   auth, chat, search, runs, widget, thread, desk>>

\* resetAll; its button is there while phase is not idle. Nothing reaches
\* the calls that are waiting.
resetAll ==
    /\ voice.phase # "idle"
    /\ voice' = [voice EXCEPT !.phase = "idle", !.chatHistory = <<>>,
                              !.liveTranscript = "", !.isProcessing = FALSE,
                              !.reset = TRUE]
    /\ UNCHANGED <<storage, db, rd, ret, net, created, hist, pageVars, profiles, call,
                   auth, chat, search, runs, widget, thread, desk>>

\* ------------------------------------------- the chat of an application
\* The chat of one Application: messages is the array of the application's
\* document, seen each participant's messages state (the last snapshot
\* delivered to their ChatModal), writes the updateDoc calls under way,
\* built the number of messages built so far.
Participants == {"recruiter", "candidate"}

NoThread == [messages |-> <<>>, seen |-> [p \in Participants |-> <<>>], writes |-> {},
             built |-> 0]

MaxMessages == 2
MaxWrites == 2

\* The Message handleSendMessage and handleVideoCallRequest build; the id
\* (Date.now() with a random suffix) is one no message has had, here the
\* message's number.
Message(id, senderId, isVideoCallRequest) ==
    [id |-> id, senderId |-> senderId, isVideoCallRequest |-> isVideoCallRequest,
     videoCallStatus |-> IF isVideoCallRequest THEN "pending" ELSE "none"]

\* arrayUnion on the document's array: appended unless an equal element
\* is there.
arrayUnion(messages, msg) ==
    IF \E i \in 1..Len(messages) : messages[i] = msg THEN messages
    ELSE Append(messages, msg)

\* handleSendMessage with a non-blank text: updateDoc with arrayUnion(msg).
handleSendMessage ==
    /\ Cardinality(thread.writes) < MaxWrites
    /\ thread.built < MaxMessages
    /\ \E p \in Participants :
          thread' = [thread EXCEPT
                       !.built = @ + 1,
                       !.writes = @ \cup {[kind |-> "arrayUnion",
                                           msg |-> Message(thread.built + 1, p, FALSE)]}]
    /\ UNCHANGED <<storage, db, rd, ret, net, created, hist, pageVars, profiles, call,
                   auth, chat, search, runs, widget, voice, desk>>

\* handleVideoCallRequest; its button is the recruiter's.
handleVideoCallRequest ==
    /\ Cardinality(thread.writes) < MaxWrites
    /\ thread.built < MaxMessages
    /\ thread' = [thread EXCEPT
                    !.built = @ + 1,
                    !.writes = @ \cup {[kind |-> "arrayUnion",
                                        msg |-> Message(thread.built + 1, "recruiter", TRUE)]}]
    /\ UNCHANGED <<storage, db, rd, ret, net, created, hist, pageVars, profiles, call,
                   auth, chat, search, runs, widget, voice, desk>>

\* messages.map(msg => msg.id === messageId ? {...msg, videoCallStatus} : msg)
updatedMessages(messages, messageId, status) ==
    [i \in 1..Len(messages) |->
        IF messages[i].id = messageId THEN [messages[i] EXCEPT !.videoCallStatus = status]
        ELSE messages[i]]

\* updateVideoCallStatus: Accept and Decline are on a pending request the
\* participant sees and did not send; updateDoc with the mapped copy of
\* the participant's own messages state.
updateVideoCallStatus ==
    /\ Cardinality(thread.writes) < MaxWrites
    /\ \E p \in Participants, status \in {"accepted", "rejected"} :
        \E i \in 1..Len(thread.seen[p]) :
          /\ thread.seen[p][i].isVideoCallRequest
          /\ thread.seen[p][i].videoCallStatus = "pending"
          /\ thread.seen[p][i].senderId # p
          /\ thread' = [thread EXCEPT !.writes = @ \cup
                          {[kind |-> "set",
                            messages |-> updatedMessages(thread.seen[p],
                                                         thread.seen[p][i].id, status)]}]
    /\ UNCHANGED <<storage, db, rd, ret, net, created, hist, pageVars, profiles, call,
                   auth, chat, search, runs, widget, voice, desk>>

\* An updateDoc reaches the document, or is rejected and only reported.
writeSettles ==
    /\ \E w \in thread.writes, ok \in BOOLEAN :
          thread' = [thread EXCEPT
                       !.writes = @ \ {w},
                       !.messages = IF ~ok THEN @
                                    ELSE IF w.kind = "arrayUnion" THEN arrayUnion(@, w.msg)
                                    ELSE w.messages]
    /\ UNCHANGED <<storage, db, rd, ret, net, created, hist, pageVars, profiles, call,
                   auth, chat, search, runs, widget, voice, desk>>

\* onSnapshot's callback in one participant's ChatModal.
onSnapshot ==
    /\ \E p \in Participants :
          /\ thread.seen[p] # thread.messages
          /\ thread' = [thread EXCEPT !.seen[p] = thread.messages]
    /\ UNCHANGED <<storage, db, rd, ret, net, created, hist, pageVars, profiles, call,
                   auth, chat, search, runs, widget, voice, desk>>

\* A candidate applying. apps are the applications apiAddApplication has
\* saved (it writes localStorage before its request); at is the page
\* mounted; shown tells that the page lists its jobs; appliedJobs is the
\* jobs page's state, applications (their job ids) the dashboard's;
\* modal is externalApplyModalJob (0: null), applyingTo the jobs page's
\* applyingTo (0: null); waiting are the handlers waiting in
\* `await apiAddApplication`, each with the list its render had.
NoDesk == [apps |-> <<>>, at |-> "none", shown |-> FALSE, appliedJobs |-> {},
           applications |-> {}, modal |-> 0, applyingTo |-> 0, waiting |-> {}]

MaxApplications == 3

\* Job 1 is a posted job, job 2 an external one; the dashboard lists
\* external jobs only.
DeskJobs == {1, 2}
isExternal(job) == job = 2

\* The job ids of the candidate's stored applications.
AppliedIds == {desk.apps[i].jobId : i \in DOMAIN desk.apps}

\* The Application the handlers build: a fresh id, the job, the candidate.
newApp(job) == [id |-> Len(desk.apps) + 1, jobId |-> job, candidateId |-> "u1"]

\* Opening the jobs page or the candidate dashboard: a new component with
\* useState's defaults; what the page left was waiting for sets no state.
mounts ==
    /\ \E at \in {"jobs", "dashboard"} :
          /\ at # desk.at
          /\ desk' = [NoDesk EXCEPT !.apps = desk.apps, !.at = at]
    /\ UNCHANGED <<storage, db, rd, ret, net, created, hist, pageVars, profiles, call,
                   auth, chat, search, runs, widget, voice, thread>>

\* setAllJobs / setExternalJobs: the page lists its jobs.
jobsShown ==
    /\ desk.at # "none"
    /\ ~desk.shown
    /\ desk' = [desk EXCEPT !.shown = TRUE]
    /\ UNCHANGED <<storage, db, rd, ret, net, created, hist, pageVars, profiles, call,
                   auth, chat, search, runs, widget, voice, thread>>

\* apiGetStoredApplications has returned to the page's effect:
\* setAppliedJobs(appliedIds) on the jobs page (after setAllJobs),
\* setApplications(myApps) on the dashboard.
appsLoaded ==
    /\ \/ desk.at = "jobs" /\ desk.shown
       \/ desk.at = "dashboard"
    /\ desk' = IF desk.at = "jobs" THEN [desk EXCEPT !.appliedJobs = AppliedIds]
               ELSE [desk EXCEPT !.applications = AppliedIds]
    /\ desk' # desk
    /\ UNCHANGED <<storage, db, rd, ret, net, created, hist, pageVars, profiles, call,
                   auth, chat, search, runs, widget, voice, thread>>

\* hasApplied and isApplying of a job's card.
hasApplied(job) ==
    IF desk.at = "jobs" THEN job \in desk.appliedJobs ELSE job \in desk.applications

\* JobsPage.handleApply for a candidate (with a resume chosen), from a
\* card whose button is enabled: an external job opens the dialog; for a
\* posted job apiAddApplication is called and awaited.
handleApply ==
    /\ desk.at = "jobs" /\ desk.shown
    /\ Len(desk.apps) < MaxApplications
    /\ \E job \in DeskJobs :
          /\ ~hasApplied(job) /\ desk.applyingTo # job
          /\ desk' = IF isExternal(job) THEN [desk EXCEPT !.modal = job]
                     ELSE [desk EXCEPT
                             !.applyingTo = job,
                             !.apps = Append(@, newApp(job)),
                             !.waiting = @ \cup {[job |-> job, id |-> Len(desk.apps) + 1,
                                                  had |-> desk.appliedJobs]}]
    /\ UNCHANGED <<storage, db, rd, ret, net, created, hist, pageVars, profiles, call,
                   auth, chat, search, runs, widget, voice, thread>>

\* JobSeekerDashboard.handleApplyExternal, from a card whose button is
\* enabled.
handleApplyExternal ==
    /\ desk.at = "dashboard" /\ desk.shown
    /\ \E job \in DeskJobs :
          /\ isExternal(job)
          /\ ~hasApplied(job)
          /\ desk.modal # job
          /\ desk' = [desk EXCEPT !.modal = job]
    /\ UNCHANGED <<storage, db, rd, ret, net, created, hist, pageVars, profiles, call,
                   auth, chat, search, runs, widget, voice, thread>>

\* confirmExternalApplication of either page, from the dialog's button:
\* apiAddApplication is called and awaited; the dialog is there until the
\* handler's finally.
confirmExternalApplication ==
    /\ desk.modal # 0
    /\ Len(desk.apps) < MaxApplications
    /\ desk' = [desk EXCEPT
                  !.apps = Append(@, newApp(desk.modal)),
                  !.waiting = @ \cup {[job |-> desk.modal, id |-> Len(desk.apps) + 1,
                                       had |-> IF desk.at = "jobs" THEN desk.appliedJobs
                                               ELSE desk.applications]}]
    /\ UNCHANGED <<storage, db, rd, ret, net, created, hist, pageVars, profiles, call,
                   auth, chat, search, runs, widget, voice, thread>>

\* The dialog's cancel button.
onCancel ==
    /\ desk.modal # 0
    /\ desk' = [desk EXCEPT !.modal = 0]
    /\ UNCHANGED <<storage, db, rd, ret, net, created, hist, pageVars, profiles, call,
                   auth, chat, search, runs, widget, voice, thread>>

\* apiAddApplication returns (it catches what its request throws): the
\* handler sets its list to the one its render had with the job added,
\* and in its finally closes the dialog or clears applyingTo.
applicationAdded ==
    /\ \E w \in desk.waiting :
          desk' = [desk EXCEPT
                     !.waiting = @ \ {w},
                     !.appliedJobs = IF desk.at = "jobs" THEN w.had \cup {w.job} ELSE @,
                     !.applications = IF desk.at = "dashboard" THEN w.had \cup {w.job} ELSE @,
                     !.modal = IF isExternal(w.job) THEN 0 ELSE @,
                     !.applyingTo = IF isExternal(w.job) THEN @ ELSE 0]
    /\ UNCHANGED <<storage, db, rd, ret, net, created, hist, pageVars, profiles, call,
                   auth, chat, search, runs, widget, voice, thread>>

\* None of the panels above is in use.
PanelsIdle ==
    /\ runs = NoRuns
    /\ widget = NoWidget
    /\ voice = NoVoice
    /\ thread = NoThread
    /\ desk = NoDesk

\* Nothing of the above is going on.
OthersIdle ==
    /\ profiles = NoProfiles
    /\ call = NoCall
    /\ auth = SignedOut
    /\ chat = NoChat
    /\ PanelsIdle
    /\ search = NoSearch

\* ------------------------------------------------------- specifications
NoReads == [t \in Tables |-> Idle]
NoReturns == [t \in Tables |-> NotCalled]

\* A session in a fresh browser profile against an empty remote store.
Init ==
    /\ storage = [k \in Keys |-> Absent]
    /\ db = [t \in Tables |-> <<>>]
    /\ rd = NoReads
    /\ ret = NoReturns
    /\ net = {}
    /\ created = 0
    /\ hist = NoHistory
    /\ page = NewPage("recruiter")
    /\ upstream = Unreachable
    /\ OthersIdle

Next ==
    \/ CallGetStoredJobs
    \/ ReturnGetStoredJobs
    \/ handleCreateJob
    \/ handleDeleteJob
    \/ PostJobHandler
    \/ DeleteJobHandler
    \/ RequestLost
    \/ OtherSessionPost
    \/ OtherSessionDelete

Spec == Init /\ [][Next]_vars

\* One combined read of jobs and one of applications, over every content
\* of the stores: what localStorage may hold under the key (nothing, the
\* empty string, text that is no JSON, JSON that is no list, a list) and
\* the rows of the table.
ReadIds == 1..MaxReadIds
JobInputs == {PostedJob(i, c) : i \in ReadIds, c \in Categories}
AppInputs == {App(i, 1, "u1", s) : i \in ReadIds, s \in {"pending", "reviewed"}}
Inputs(t) == IF t = "jobs" THEN JobInputs ELSE AppInputs
RowInputs(t) == IF t = "jobs" THEN {PostedJob(i, "Engineering") : i \in ReadIds}
                ELSE {App(i, 1, "u1", "reviewed") : i \in ReadIds}
Rows(t) == Lists(RowInputs(t), MaxLen)
StoredTexts(t) ==
    {Absent, EmptyText, Garbage}
      \cup {JsonText(v) : v \in NonArrays}
      \cup {JsonText(Arr(s)) : s \in Lists(Inputs(t), MaxLen)}

InitRead ==
    /\ \E t \in Tables :
         /\ \E x \in StoredTexts(t) :
               storage = [k \in Keys |-> IF k = KeyOf(t) THEN x ELSE Absent]
         /\ \E rows \in Rows(t) :
               db = [u \in Tables |-> IF u = t THEN rows ELSE <<>>]
    /\ rd = NoReads
    /\ ret = NoReturns
    /\ net = {}
    /\ created = 0
    /\ hist = NoHistory
    /\ page = NewPage("recruiter")
    /\ upstream = Unreachable
    /\ OthersIdle

NextRead ==
    \/ CallGetStoredJobs
    \/ ReturnGetStoredJobs
    \/ CallGetStoredApplications
    \/ ReturnGetStoredApplications

SpecRead == InitRead /\ [][NextRead]_vars

\* The jobs page of a visitor, a candidate or a recruiter, over stores that
\* hold what earlier sessions wrote and endpoints that answer as they may.
InitAgg ==
    /\ storage \in {[k \in Keys |-> Absent],
                    [k \in Keys |-> IF k = LOCAL_JOBS_KEY
                                    THEN JsonText(Arr(<<PostedJob(2, "Design")>>))
                                    ELSE JsonText(Arr(<<App(2, 2, "u1", "pending")>>))],
                    [k \in Keys |-> IF k = LOCAL_JOBS_KEY
                                    THEN JsonText(Arr(<<PostedJob(1, "Design"),
                                                        PostedJob(2, "Design")>>))
                                    ELSE JsonText(Arr(<<App(2, 2, "u1", "pending")>>))]}
    /\ db \in {[t \in Tables |-> <<>>],
               [t \in Tables |-> IF t = "jobs" THEN <<PostedJob(1, "Engineering")>>
                                 ELSE <<App(1, 1, "u1", "reviewed"),
                                        App(3, 1, "u2", "pending")>>]}
    /\ rd = NoReads
    /\ ret = NoReturns
    /\ net = {}
    /\ created = 0
    /\ hist = NoHistory
    /\ \E role \in {"none", "candidate", "recruiter"} : page = NewPage(role)
    /\ upstream \in Upstreams
    /\ OthersIdle

NextAgg ==
    \/ fetchJobsAndApps
    \/ ReturnGetStoredJobs
    \/ AdzunaSettles
    \/ SerpSettles
    \/ JobsSettled
    \/ ReturnGetStoredApplications
    \/ AppsSettled

SpecAgg == InitAgg /\ [][NextAgg]_vars

\* The jobs page showing some aggregated list while the visitor picks
\* categories. A job's category is free text: the listings' mappers and the
\* job form give the names of the buttons, but also other spellings.
ShownCategories == {"Engineering", "Design", "engineering"}
ShownJobs == {PostedJob(i, c) : i \in ReadIds, c \in ShownCategories}
                \cup {ExternalJob(100 + i, "Adzuna") : i \in ReadIds}

InitFilter ==
    /\ storage = [k \in Keys |-> Absent]
    /\ db = [t \in Tables |-> <<>>]
    /\ rd = NoReads
    /\ ret = NoReturns
    /\ net = {}
    /\ created = 0
    /\ hist = NoHistory
    /\ \E jobs \in Lists(ShownJobs, MaxLen) :
          page = [NewPage("none") EXCEPT !.allJobs = jobs, !.set = TRUE, !.loading = FALSE]
    /\ upstream = Unreachable
    /\ OthersIdle

NextFilter == setCategory

SpecFilter == InitFilter /\ [][NextFilter]_vars

\* A session of a recruiter (posting and deleting jobs, deciding on an
\* application), of a candidate (applying) or of someone who has just
\* signed in (a profile is saved), over a remote store that may answer,
\* refuse, be unreachable or be slow. The application the recruiter sees
\* may have any status, and may be missing from either store.
InitWrite ==
    /\ \E s \in Statuses :
         /\ storage \in {[k \in Keys |-> Absent],
                         [k \in Keys |-> IF k = LOCAL_APPS_KEY
                                         THEN JsonText(Arr(<<App(1, 1, "u1", s)>>))
                                         ELSE Absent]}
         /\ db \in {[t \in Tables |-> <<>>],
                    [t \in Tables |-> IF t = "applications" THEN <<App(1, 1, "u1", s)>>
                                      ELSE <<>>]}
    /\ rd = NoReads
    /\ ret = NoReturns
    /\ net = {}
    /\ created = 0
    /\ hist = NoHistory
    /\ \E role \in {"none", "candidate", "recruiter"} : page = NewPage(role)
    /\ upstream = Unreachable
    /\ OthersIdle

NextWrite ==
    \/ createJobBegins
    \/ deleteJobBegins
    \/ applyBegins
    \/ updateApplicationStatus
    \/ saveProfileBegins
    \/ IssueRequest
    \/ RequestSettles
    \/ CallReturns

SpecWrite == InitWrite /\ [][NextWrite]_vars

\* The recruiter's dashboard: status updates and combined reads of the
\* applications, over an application that is in this browser's local list,
\* in the remote table, or in both.
InitStatus ==
    /\ InitWrite
    /\ page.role = "recruiter"
    /\ IdsOf(getLocalApplications.items) \cup IdsOf(db["applications"]) # {}

NextStatus ==
    \/ updateApplicationStatus
    \/ IssueRequest
    \/ RequestSettles
    \/ CallReturns
    \/ CallGetStoredApplications
    \/ ReturnGetStoredApplications

SpecStatus == InitStatus /\ [][NextStatus]_vars

\* The jobs page from its first render: typing in the search box, category
\* buttons, and the aggregations these start.
InitRace ==
    /\ storage = [k \in Keys |-> Absent]
    /\ db = [t \in Tables |-> <<>>]
    /\ rd = NoReads
    /\ ret = NoReturns
    /\ net = {}
    /\ created = 0
    /\ hist = NoHistory
    /\ page = NewPage("none")
    /\ upstream = Unreachable
    /\ OthersIdle

NextRace ==
    \/ setSearch
    \/ debounceFires
    \/ setCategory
    \/ effectRuns
    \/ runSettles

SpecRace == InitRace /\ [][NextRace]_vars

\* The Chatbot widget from its first render. A fetch that has been sent
\* settles: the browser resolves or rejects it.
InitWidget == InitRace

NextWidget ==
    \/ setInput
    \/ handleSubmit
    \/ replyArrives

SpecWidget == InitWidget /\ [][NextWidget]_vars /\ WF_vars(replyArrives)

\* The voice mock interview from its first render.
InitVoice == InitRace

NextVoice ==
    \/ toggleMute
    \/ startInterview
    \/ heard
    \/ submitAnswer
    \/ aiSettles
    \/ speechEnds
    \/ resetAll

SpecVoice == InitVoice /\ [][NextVoice]_vars

\* The chat of an application, both participants' ChatModal open.
InitThread == InitRace

NextThread ==
    \/ handleSendMessage
    \/ handleVideoCallRequest
    \/ updateVideoCallStatus
    \/ writeSettles
    \/ onSnapshot

SpecThread == InitThread /\ [][NextThread]_vars

\* A candidate, signed in, with no application yet.
InitDesk == InitRace

NextDesk ==
    \/ mounts
    \/ jobsShown
    \/ appsLoaded
    \/ handleApply
    \/ handleApplyExternal
    \/ confirmExternalApplication
    \/ onCancel
    \/ applicationAdded

SpecDesk == InitDesk /\ [][NextDesk]_vars

\* Sign-ins of one account, first or later: the remote table holds its
\* profile or not yet, this browser's localStorage holds a copy or nothing.
StoredProfiles == {Profile(u, r, "Asha") : u \in Uids, r \in Roles}

InitProfile ==
    /\ storage = [k \in Keys |-> Absent]
    /\ db = [t \in Tables |-> <<>>]
    /\ rd = NoReads
    /\ ret = NoReturns
    /\ net = {}
    /\ created = 0
    /\ hist = NoHistory
    /\ page = NewPage("none")
    /\ upstream = Unreachable
    /\ \E remote \in [Uids -> StoredProfiles \cup {NoProfile}] :
       \E local \in {remote, [u \in Uids |-> NoProfile]} :
          /\ \A u \in Uids : remote[u] # NoProfile => remote[u].uid = u
          /\ profiles = [local |-> local, remote |-> remote, intended |-> "none"]
    /\ call = NoCall
    /\ auth = SignedOut
    /\ chat = NoChat
    /\ PanelsIdle
    /\ search = NoSearch

NextProfile ==
    \/ chooseRole
    \/ signIn
    \/ profileFetched
    \/ profileSaved
    \/ signOut

SpecProfile == InitProfile /\ [][NextProfile]_vars

\* The chat handlers, serving requests one after the other.
InitChat ==
    /\ storage = [k \in Keys |-> Absent]
    /\ db = [t \in Tables |-> <<>>]
    /\ rd = NoReads
    /\ ret = NoReturns
    /\ net = {}
    /\ created = 0
    /\ hist = NoHistory
    /\ page = NewPage("none")
    /\ upstream = Unreachable
    /\ OthersIdle

NextChat ==
    \/ chatArrives
    \/ chatHandled
    \/ generativeAnswers
    \/ chatEnds

SpecChat == InitChat /\ [][NextChat]_vars

\* One GET /api/jobs/search, from its arrival to its response.
InitSearch ==
    /\ storage = [k \in Keys |-> Absent]
    /\ db = [t \in Tables |-> <<>>]
    /\ rd = NoReads
    /\ ret = NoReturns
    /\ net = {}
    /\ created = 0
    /\ hist = NoHistory
    /\ page = NewPage("none")
    /\ upstream = Unreachable
    /\ OthersIdle

NextSearch ==
    \/ searchArrives
    \/ searchBegins
    \/ pageSettles
    \/ searchEnds

SpecSearch == InitSearch /\ [][NextSearch]_vars

\* One GET /api/jobs/search?pages=..., from the handler's start on, with
\* the jobs of its pages.
AskedPages == {NoPages, <<"2">>, <<"3">>, <<"4">>}

InitCollect ==
    /\ storage = [k \in Keys |-> Absent]
    /\ db = [t \in Tables |-> <<>>]
    /\ rd = NoReads
    /\ ret = NoReturns
    /\ net = {}
    /\ created = 0
    /\ hist = NoHistory
    /\ page = NewPage("none")
    /\ upstream = Unreachable
    /\ profiles = NoProfiles
    /\ call = NoCall
    /\ auth = SignedOut
    /\ chat = NoChat
    /\ PanelsIdle
    /\ \E handler \in {"express", "serverless"}, pages \in AskedPages :
          search = [NoSearch EXCEPT !.pc = "received", !.handler = handler,
                                    !.pages = pages]

NextCollect ==
    \/ searchBegins
    \/ pageSettles
    \/ searchEnds

SpecCollect == InitCollect /\ [][NextCollect]_vars

\* The results of one page, about to be mapped: titles of a few words.
MaxTitleLen == 2
Titles == UNION {[1..n -> TitleWords] : n \in 1..MaxTitleLen}
            \cup {<<"Senior", "UX", "Designer">>}

\* Descriptions of a few pieces, and the description "Pay: Rs. 50,000 -
\* Rs. 70,000 per month"; a salary of the provider that is not there, is
\* empty or is a text.
MaxDescLen == 3
DescPieces == {"Rs.", "$", " ", "50,000", "-", "to", "per", "month", "Pay:"}
PayRange == <<"Pay:", " ", "Rs.", " ", "50,000", " ", "-", " ", "Rs.", " ", "70,000",
              " ", "per", " ", "month">>
Descriptions == UNION {[1..n -> DescPieces] : n \in 0..MaxDescLen} \cup {PayRange}
Salaries == {NoSalary, SalaryText(<<>>), SalaryText(<<"12 LPA">>)}

InitMap ==
    /\ storage = [k \in Keys |-> Absent]
    /\ db = [t \in Tables |-> <<>>]
    /\ rd = NoReads
    /\ ret = NoReturns
    /\ net = {}
    /\ created = 0
    /\ hist = NoHistory
    /\ page = NewPage("none")
    /\ upstream = Unreachable
    /\ profiles = NoProfiles
    /\ call = NoCall
    /\ auth = SignedOut
    /\ chat = NoChat
    /\ PanelsIdle
    /\ \E job \in {ProviderJob(title, NoSalary, <<>>) : title \in Titles}
                  \cup {ProviderJob(<<"Clerk">>, salary, description) :
                           salary \in Salaries, description \in Descriptions} :
          search = [NoSearch EXCEPT !.pc = "mapping", !.maxPages = 1,
                                    !.requests = <<NoToken>>,
                                    !.got = <<(<<job>>)>>]

NextMap == resultsPushed

SpecMap == InitMap /\ [][NextMap]_vars

\* ------------------------------------------------------------- properties
\* The list a stored text stands for: its entries when it is the JSON text
\* of a list, no entries otherwise.
StoredList(t) ==
    IF storage[KeyOf(t)].k = "json" /\ IsArray(storage[KeyOf(t)].val)
    THEN storage[KeyOf(t)].val.items ELSE <<>>
\* The stored text is one the program writes (a list) or a missing key.
WellStored(t) ==
    \/ storage[KeyOf(t)].k = "absent"
    \/ storage[KeyOf(t)].k = "json" /\ IsArray(storage[KeyOf(t)].val)
\* The read of t has just settled in this step.
ReadReturns(t) == rd[t].pc = "sent" /\ rd'[t].pc = "idle"
\* The positions of the local entries whose id the remote rows lack.
LocalOnly(local, rows) == {i \in DOMAIN local : local[i].id \notin IdsOf(rows)}

\* C1 (SpecRead; the stores do not change there, so db[t] is the remote
\* result): whenever the remote list() of a combined read of jobs or of
\* applications succeeded, every id of the remote result is an id of the
\* returned list, whatever localStorage held.
C1_RemoteIdsKept ==
    \A t \in Tables :
      hist.last[t] = "ok" =>
        /\ ret[t].st = "fulfilled"
        /\ IdsOf(db[t]) \subseteq IdsOf(ret[t].val.items)

\* C3 (SpecRead): after a successful combined read over a stored list (or a
\* missing key), the returned list is the remote rows, in remote order,
\* followed by the local entries whose id is not remote, in local order; an
\* entry with a remote id is the remote row.
C3_MergeIsRemoteThenLocalOnly ==
    \A t \in Tables :
      (hist.last[t] = "ok" /\ WellStored(t)) =>
        LET m == ret[t].val.items
            n == Len(db[t])
            K == LocalOnly(StoredList(t), db[t])
        IN  /\ ret[t].st = "fulfilled"
            /\ IsArray(ret[t].val)
            /\ Len(m) = n + Cardinality(K)
            /\ \A i \in 1..n : m[i] = db[t][i]
            /\ \A i \in K : m[n + Cardinality({k \in K : k <= i})] = StoredList(t)[i]
            /\ \A i \in DOMAIN m :
                 m[i].id \in IdsOf(db[t]) => \E j \in DOMAIN db[t] : m[i] = db[t][j]

\* The spec's scenario: remote [r1], local [r1 (another copy), l1] gives
\* [r1 from remote, l1].
C3_Witness ==
    /\ hist.last["jobs"] = "ok"
    /\ db["jobs"] = <<PostedJob(1, "Engineering")>>
    /\ storage[LOCAL_JOBS_KEY] =
         JsonText(Arr(<<PostedJob(1, "Design"), PostedJob(2, "Design")>>))
    /\ ret["jobs"] =
         Returned(Arr(<<PostedJob(1, "Engineering"), PostedJob(2, "Design")>>))

\* C4 (SpecRead): when the remote list() failed (the fetch threw, or the
\* status was not ok), the read returned, without throwing, the list the
\* local store holds, in its order: the stored list, or the empty list for
\* a missing key, an empty text or text that is no JSON.
C4_FailureReturnsLocal ==
    \A t \in Tables :
      hist.last[t] \in {"status", "throw"} =>
        /\ ret[t].st = "fulfilled"
        /\ (storage[KeyOf(t)].k = "json" /\ IsArray(storage[KeyOf(t)].val))
             => ret[t].val = storage[KeyOf(t)].val
        /\ storage[KeyOf(t)].k # "json" => ret[t].val = Arr(<<>>)

C4_Witness ==
    /\ hist.last["jobs"] = "throw"
    /\ db["jobs"] = <<PostedJob(1, "Engineering")>>
    /\ ret["jobs"] = Returned(Arr(<<PostedJob(2, "Design"), PostedJob(1, "Design")>>))
    /\ storage[LOCAL_JOBS_KEY] = JsonText(ret["jobs"].val)

\* C6 (SpecRead): getLocalJobs and getLocalApplications give the empty list
\* for every stored value that is no list: a missing key, text that is no
\* JSON, JSON that is no list.
C6_ReadGivesListOrEmpty ==
    \A t \in Tables :
      rd[t].pc = "sent" =>
        rd[t].snap = Arr(StoredList(t))

\* C7 as stated (SpecRead): after a combined read over a stored list whose
\* remote list() succeeded, every remote entry is in the local store.
C7_CacheRefreshed ==
    \A t \in Tables :
      (hist.last[t] = "ok" /\ WellStored(t)) =>
        \A i \in DOMAIN db[t] : \E j \in DOMAIN StoredList(t) : StoredList(t)[j] = db[t][i]

\* C7 as amended (SpecRead): a combined read of jobs or of applications
\* writes nothing to localStorage, whether its remote list() succeeds or
\* fails.
C7_ReadLeavesCacheAlone ==
    [][\A t \in Tables : ReadReturns(t) => storage' = storage]_vars

\* A successful read of remote rows the local store still lacks.
C7_Witness ==
    /\ hist.last["jobs"] = "ok"
    /\ db["jobs"] = <<PostedJob(1, "Engineering")>>
    /\ ret["jobs"] = Returned(Arr(db["jobs"]))
    /\ storage[LOCAL_JOBS_KEY] = Absent

\* C2 (Spec): when a combined read of jobs returns after a successful
\* remote list(), every entry of the local list it read whose id is not
\* among the remote rows is in the returned list exactly once.
C2_LocalOnlyOnce ==
    [][(ReadReturns("jobs") /\ hist'.last["jobs"] = "ok") =>
         \A id \in IdsOf(rd["jobs"].snap.items) \ IdsOf(db["jobs"]) :
            Count(ret'["jobs"].val.items, id) = 1]_vars

\* A successful read, no store changed since it began, returned a local
\* entry the remote table lacks, next to a remote row.
C2_Witness ==
    /\ hist.streak >= 1
    /\ db["jobs"] # <<>>
    /\ \E id \in IdsOf(getLocalJobs.items) \ IdsOf(db["jobs"]) :
         Count(ret["jobs"].val.items, id) = 1

\* C5 (Spec): a job created here whose POST failed (a 500, or no answer) is
\* in the list every combined read begun after that returns, whether that
\* read's remote list() succeeds or fails, unless the job was deleted in
\* between.
C5_UnsyncedJobIsRead ==
    [][ReadReturns("jobs") =>
         hist.expect \subseteq IdsOf(ret'["jobs"].val.items)]_vars

\* The remote store is back, lists another job, and the read returned the
\* job that never reached it.
C5_Witness ==
    /\ hist.unsynced # {}
    /\ hist.last["jobs"] = "ok"
    /\ hist.streak >= 1
    /\ db["jobs"] # <<>>
    /\ hist.unsynced \cap IdsOf(db["jobs"]) = {}
    /\ hist.unsynced \subseteq IdsOf(ret["jobs"].val.items)

\* C8 (Spec): a combined read of jobs that succeeds right after one that
\* succeeded, with no change of the local list or the remote table since
\* the earlier one began, returns what the earlier one returned; the same
\* holds for every further such read.
C8_ReadTwiceSame ==
    [][(ReadReturns("jobs") /\ hist.streak >= 1 /\ hist'.streak >= 1) =>
         ret'["jobs"] = ret["jobs"]]_vars

\* Two such reads in a row, of a remote row and a local-only job.
C8_Witness ==
    /\ hist.streak = 2
    /\ Len(ret["jobs"].val.items) = 2
    /\ IdsOf(getLocalJobs.items) \ IdsOf(db["jobs"]) # {}

\* The jobs an endpoint's answer lists: those of a 200, none otherwise.
Listed(answer) == IF answer.kind = "ok" THEN answer.jobs ELSE <<>>
Failed(answer) == answer.kind \in {"throw", "status"}
\* The same jobs, each as often, in any order.
SameJobs(a, b) ==
    /\ Len(a) = Len(b)
    /\ \A x \in {a[i] : i \in DOMAIN a} \cup {b[i] : i \in DOMAIN b} :
         Cardinality({i \in DOMAIN a : a[i] = x}) = Cardinality({i \in DOMAIN b : b[i] = x})
IsExternalJob(j) == j.isExternal
IsPostedJob(j) == ~j.isExternal
\* The aggregation begun last has set the page's list.
Aggregated == page.set

\* C9 (SpecAgg): every aggregation ends with the page's list set, whatever
\* failed; the list holds all the jobs the combined read returned, and when
\* one endpoint lists n jobs and the other fails (throws, or a status that
\* is not ok), its external jobs are exactly those n.
C9_FailureOfOneSourceKeepsOthers ==
    /\ (page.pc = "idle" /\ ~page.loading) => Aggregated
    /\ Aggregated =>
         LET external == SelectSeq(page.allJobs, IsExternalJob)
         IN  /\ SelectSeq(page.allJobs, IsPostedJob) = ret["jobs"].val.items
             /\ Failed(upstream.adzuna) => SameJobs(external, Listed(upstream.serp))
             /\ Failed(upstream.serp) => SameJobs(external, Listed(upstream.adzuna))

\* Adzuna threw, the remote store was down, SerpApi listed two jobs: the
\* page shows the local job and those two.
C9_Witness ==
    /\ Aggregated
    /\ upstream.adzuna = ExtThrew
    /\ upstream.serp = ExtOk(SerpJobs(2))
    /\ hist.last["jobs"] = "throw"
    /\ ret["jobs"].val.items # <<>>
    /\ Len(page.allJobs) = Len(ret["jobs"].val.items) + 2

\* C10 as stated (SpecAgg): whenever both endpoints answer 200, the
\* aggregated list holds every job of the one and every job of the other.
C10_BothAdaptersJoined ==
    (Aggregated /\ upstream.adzuna.kind = "ok" /\ upstream.serp.kind = "ok") =>
       \A x \in {upstream.adzuna.jobs[i] : i \in DOMAIN upstream.adzuna.jobs}
                  \cup {upstream.serp.jobs[i] : i \in DOMAIN upstream.serp.jobs} :
          \E i \in DOMAIN page.allJobs : page.allJobs[i] = x

\* C10 as amended (SpecAgg): the external jobs of the aggregated list are
\* the jobs Adzuna listed when it listed any, and otherwise the jobs the
\* SerpApi search listed; each as often as listed, none dropped as a
\* duplicate; and the jobs of the combined read stand beside them.
C10_AdzunaElseSerp ==
    Aggregated =>
       LET external == SelectSeq(page.allJobs, IsExternalJob)
           a == Listed(upstream.adzuna)
       IN  /\ a # <<>> => SameJobs(external, a)
           /\ a = <<>> => SameJobs(external, Listed(upstream.serp))
           /\ SelectSeq(page.allJobs, IsPostedJob) = ret["jobs"].val.items

\* Both endpoints answer 200 with jobs; the page shows Adzuna's only.
C10_Witness ==
    /\ Aggregated
    /\ upstream.adzuna = ExtOk(AdzunaJobs(1))
    /\ upstream.serp = ExtOk(SerpJobs(2))
    /\ SelectSeq(page.allJobs, IsExternalJob) = AdzunaJobs(1)
    /\ ret["jobs"].val.items # <<>>

\* The jobs of one provider among the jobs fetchExternalJobs returned.
FromAdzuna(j) == j.externalSource = "Adzuna"
FromSearch(j) == j.externalSource = "Google Jobs"

C14_PostedBeforeExternal ==
    Aggregated =>
       LET posted == ret["jobs"].val.items
       IN  /\ Len(page.allJobs) >= Len(posted)
           /\ SubSeq(page.allJobs, 1, Len(posted)) = posted
           /\ \A i, j \in DOMAIN page.allJobs :
                (page.allJobs[i].isExternal /\ ~page.allJobs[j].isExternal) => j < i

\* A merged list of two jobs followed by two external jobs.
C14_Witness ==
    /\ Aggregated
    /\ hist.last["jobs"] = "ok"
    /\ Len(ret["jobs"].val.items) = 2
    /\ Len(page.allJobs) = 4
    /\ ~page.allJobs[2].isExternal
    /\ page.allJobs[3].isExternal

\* C16 (SpecAgg): no two entries of an aggregated list have the same id.
C16_AggregatedIdsUnique ==
    Aggregated => UniqueIds(page.allJobs)

\* Job 1 is in the local list and in the remote table, the read succeeded
\* and two external jobs came: the list holds job 1 once.
C16_Witness ==
    /\ Aggregated
    /\ hist.last["jobs"] = "ok"
    /\ 1 \in IdsOf(StoredList("jobs")) \cap IdsOf(db["jobs"])
    /\ Count(page.allJobs, 1) = 1
    /\ Len(SelectSeq(page.allJobs, IsExternalJob)) = 2

\* The positions of the aggregated list whose job has the category picked.
OfCategory == {i \in DOMAIN page.allJobs : page.allJobs[i].category = page.category}

\* C15 (SpecFilter): with 'All' picked the page shows the aggregated list;
\* with another category it shows the jobs whose category is that very
\* string, all of them and no others, in the order of the aggregated list.
C15_FilterByCategory ==
    /\ page.category = "All" => filteredJobs = page.allJobs
    /\ page.category # "All" =>
         /\ Len(filteredJobs) = Cardinality(OfCategory)
         /\ \A i \in OfCategory :
              filteredJobs[Cardinality({k \in OfCategory : k <= i})] = page.allJobs[i]

\* 'Engineering' is picked over a list that holds an 'engineering' job and
\* then an 'Engineering' job: the second alone is shown.
C15_Witness ==
    /\ page.category = "Engineering"
    /\ Len(page.allJobs) = 2
    /\ page.allJobs[1].category = "engineering"
    /\ page.allJobs[2].category = "Engineering"
    /\ filteredJobs = <<page.allJobs[2]>>

\* The local store shows what the helper running was called to write.
LocalWritten ==
    CASE call.op = "addJob" ->
           \E i \in DOMAIN StoredList("jobs") : StoredList("jobs")[i] = call.arg
      [] call.op = "deleteJob" -> call.arg.id \notin IdsOf(StoredList("jobs"))
      [] call.op = "addApplication" ->
           \E i \in DOMAIN StoredList("applications") :
              StoredList("applications")[i] = call.arg
      [] call.op = "updateStatus" ->
           \A i \in DOMAIN StoredList("applications") :
              StoredList("applications")[i].id = call.arg.id =>
                 StoredList("applications")[i].status = call.arg.status
      [] call.op = "saveProfile" -> profiles.local[call.arg.uid] = call.arg
      [] OTHER -> TRUE

\* C12 (SpecWrite): while the request of a write helper is in flight and
\* after it the local store already shows the write; the request leaves
\* only after the local write; and the helper's promise is fulfilled
\* however the request ends (200, another status, a transport error, the
\* timeout).
C12_LocalFirstThenNeverFails ==
    /\ call.pc \in {"sent", "done"} /\ call.st # "rejected" => LocalWritten
    /\ call.pc = "done" /\ call.resp \in Outcomes => call.st = "fulfilled"
    /\ call.pc \in {"local", "sent"} => call.st = "pending"

\* A status update whose request timed out: the local list shows the new
\* status, the remote table does not, and the helper has returned normally.
C12_Witness ==
    /\ call.pc = "done"
    /\ call.op = "updateStatus"
    /\ call.resp = "timeout"
    /\ call.st = "fulfilled"
    /\ StoredList("applications") # <<>>
    /\ StoredList("applications")[1].status = call.arg.status
    /\ db["applications"] # <<>>
    /\ db["applications"][1].status # call.arg.status

\* C13 (SpecWrite): a request of a write helper that timed out or came
\* back with a status that is not ok has taken the helper's failure path
\* (the catch with its warning), and the helper has not thrown.
C13_FailedWriteTakesFailurePath ==
    (call.pc = "done" /\ call.resp \in {"status", "timeout"}) =>
       /\ call.warned
       /\ call.st = "fulfilled"

\* The recruiter's step that sets the status of application id to s.
StatusSetTo(id, s) ==
    /\ updateApplicationStatus
    /\ call'.arg = [id |-> id, status |-> s]

\* C17 (SpecWrite): whatever the status of an application the recruiter's
\* dashboard lists, the recruiter can give it any other of the five
\* statuses.
C17_AnyStatusFromAnyStatus ==
    (page.role = "recruiter" /\ call.pc = "idle") =>
       \A i \in DOMAIN StoredList("applications") :
          \A s \in Statuses \ {StoredList("applications")[i].status} :
             ENABLED StatusSetTo(StoredList("applications")[i].id, s)

\* C19 (SpecProfile): once the remote table holds a profile for an
\* account, no sign-in replaces it, and a sign-in that has finished uses it.
C19_StoredProfileKept ==
    [][\A u \in Uids :
         profiles.remote[u] # NoProfile =>
            /\ profiles'.remote[u] = profiles.remote[u]
            /\ (auth'.user = u /\ auth'.pc = "idle") =>
                  auth'.userProfile = profiles.remote[u]]_vars

\* C18 (SpecChat): a POST to a chat handler that carries no message, or
\* an empty one, is answered 400 with an error, and the generative-language
\* API has not been called for it.
C18_NoMessageRejected ==
    (chat.pc = "responded" /\ chat.method = "POST" /\ Falsy(chat.sent.message)) =>
       /\ chat.status = 400
       /\ chat.error
       /\ chat.calls = 0

\* The page budget a pages text stands for: its value when it is a number
\* (digits, with or without a sign), and none otherwise.
IsNumber(text) ==
    /\ text # NoPages
    /\ ~parseInt(text).nan
    /\ LeadingDigits(Unsigned(text), 1, 0).len = Len(Unsigned(text))
Budget(text) == IF IsNumber(text) THEN Min(parseInt(text).value, PageCap) ELSE 1

\* C20 (SpecSearch): the upstream requests of one search go out one at a
\* time and are at most min(p, 3) for page budget p, at most 1 when p is
\* absent or not a number; every request after the first carries the token
\* the page before it returned; none follows a page without token or a
\* status that is not ok.
C20_BudgetTokensAndStops ==
    /\ search.inflight \in {0, 1}
    /\ Len(search.requests) <= IF Budget(search.pages) < 0 THEN 0 ELSE Budget(search.pages)
    /\ \A i \in 2..Len(search.requests) :
          /\ search.returned[i - 1] \in Tokens
          /\ search.requests[i] = search.returned[i - 1]

\* The jobs of some pages, one page after the other.
RECURSIVE Flat(_)
Flat(pagesGot) ==
    IF pagesGot = <<>> THEN <<>> ELSE Head(pagesGot) \o Flat(Tail(pagesGot))

\* C21 (SpecCollect): when a page of /api/jobs/search comes back with a
\* status that is not ok, the response is the success response with the
\* jobs of all earlier pages, in page order, and count is their number.
C21_EarlierPagesKept ==
    (search.pc = "responded" /\ Len(search.returned) > 0
       /\ search.returned[Len(search.returned)] = "status") =>
       /\ search.status = 200
       /\ search.body.success
       /\ Len(search.body.jobs) = Len(Flat(search.got))
       /\ \A i \in 1..Len(search.body.jobs) :
             search.body.jobs[i].title = Flat(search.got)[i].title
       /\ search.body.count = Len(search.body.jobs)

\* C21 witness: the second page failed after a first page with a job, and
\* the response has gone out.
C21_Witness ==
    /\ search.pc = "responded"
    /\ Len(search.returned) = 2
    /\ search.returned[2] = "status"
    /\ Len(search.got) = 1
    /\ Len(search.got[1]) > 0
    /\ search.body.count > 0

\* The vocabularies of the five categories, in their order; Engineering's
\* is every text detectCategory answers "Engineering" for.
FiveCategories == <<"Engineering", "Design", "Marketing", "Sales", "Product">>
Vocabulary(c) ==
    CASE c = "Engineering" -> EngineeringTexts \cup DataTexts \cup InternTexts
      [] c = "Design" -> DesignTexts
      [] c = "Marketing" -> MarketingTexts
      [] c = "Sales" -> SalesTexts
      [] c = "Product" -> ProductTexts

\* The first of some numbers.
Least(ns) == CHOOSE n \in ns : \A m \in ns : n <= m

\* C22, as claimed (SpecMap): a mapped job has the first of the five
\* categories whose vocabulary its title matches, and "Other" when it
\* matches none.
C22_FirstOfFiveElseOther ==
    \A i \in DOMAIN search.allJobs :
       LET job == search.allJobs[i]
           hits == {n \in 1..5 :
                      includesAny(toLowerCase(job.title), Vocabulary(FiveCategories[n]))}
       IN  job.category = IF hits = {} THEN "Other" ELSE FiveCategories[Least(hits)]

\* The texts of the first five lines of detectCategory, and those of its
\* later lines.
FirstTexts(c) == IF c = "Engineering" THEN EngineeringTexts ELSE Vocabulary(c)
LaterTexts == DataTexts \cup InternTexts

\* C22, amended (SpecMap): a mapped job has the first of the five
\* categories whose first vocabulary its title matches; a title matching
\* none of them is "Engineering" when it holds data, analyst, machine
\* learning, ai or intern, and "Other" when it holds none of these either.
C22_FirstOfFiveThenLaterEngineering ==
    \A i \in DOMAIN search.allJobs :
       LET job == search.allJobs[i]
           hits == {n \in 1..5 :
                      includesAny(toLowerCase(job.title), FirstTexts(FiveCategories[n]))}
       IN  job.category =
             IF hits # {} THEN FiveCategories[Least(hits)]
             ELSE IF includesAny(toLowerCase(job.title), LaterTexts) THEN "Engineering"
             ELSE "Other"

\* C22 witness: a title with product and data has been mapped, to "Product".
C22_Witness ==
    /\ search.pc = "mapped"
    /\ Len(search.allJobs) = 1
    /\ search.allJobs[1].title = <<"Product", "Data">>
    /\ search.allJobs[1].category = "Product"

\* The places of a description where a currency sign has an amount after
\* it, with or without blanks between.
AmountPlaces(desc) ==
    {i \in DOMAIN desc :
       /\ desc[i] \in CurrencySigns
       /\ \E j \in (i + 1)..Len(desc) :
             /\ desc[j] \in Amounts
             /\ \A k \in (i + 1)..(j - 1) : desc[k] = Blank}

\* C23 (SpecMap): the salary of a mapped job is the provider's salary when
\* there is one; otherwise the piece of the description that starts at the
\* first currency sign with an amount, from the sign to an amount or a
\* period, and for "Pay: Rs. 50,000 - Rs. 70,000 per month" all of
\* "Rs. 50,000 - Rs. 70,000 per month"; otherwise "Not specified".
C23_SalaryFieldThenFirstAmount ==
    \A i \in DOMAIN search.allJobs :
       LET job == search.got[1][i]
           desc == job.description
           salary == search.allJobs[i].salary
           places == AmountPlaces(desc)
       IN  IF job.salary.t = "string" /\ job.salary.text # <<>>
           THEN salary = job.salary.text
           ELSE IF places = {} THEN salary = NotSpecified
           ELSE /\ salary = SubSeq(desc, Least(places), Least(places) + Len(salary) - 1)
                /\ Len(salary) >= 2
                /\ salary[Len(salary)] \in Amounts \cup Periods
                /\ desc = PayRange => salary = SubSeq(PayRange, 3, Len(PayRange))

\* C23 witness: the job with "Pay: Rs. 50,000 - Rs. 70,000 per month" and
\* no salary of the provider has been mapped.
C23_Witness ==
    /\ search.pc = "mapped"
    /\ Len(search.allJobs) = 1
    /\ search.got[1][1].description = PayRange
    /\ search.got[1][1].salary = NoSalary
    /\ Len(search.allJobs[1].salary) = 13

\* C24 (Spec): a combined read of jobs that began after apiDeletePostedJob
\* had completed for a job created here returns no job with that id,
\* however the DELETE ended and whether the read's remote list() succeeds
\* or fails.
C24_DeletedJobNotRead ==
    [][ReadReturns("jobs") =>
         hist.absent \cap IdsOf(ret'["jobs"].val.items) = {}]_vars

\* C25 (SpecStatus): the combined read of applications that begins after
\* apiUpdateApplicationStatus(id, s) has completed returns the application
\* with status s, however the PUT ended, with or without the application
\* in the local list, and whether the read's remote list() succeeds or
\* fails.
C25_UpdatedStatusIsRead ==
    [][(ReadReturns("applications") /\ hist.want.id # 0) =>
         \E i \in DOMAIN ret'["applications"].val.items :
            /\ ret'["applications"].val.items[i].id = hist.want.id
            /\ ret'["applications"].val.items[i].status = hist.want.status]_vars

\* C26 (SpecRace): once no aggregation is in flight and none is about to
\* start, the list of the jobs page is the result for the search term and
\* category the page now has, in whatever order the aggregations ended.
C26_LatestAggregationShown ==
    (/\ runs.inflight = {}
     /\ page.set
     /\ ~runs.timer
     /\ runs.deps = <<runs.debounced, page.category>>) =>
       page.allJobs = foundFor(dynamicQuery(runs.debounced, page.category))

\* The messages of one role.
OfRole(messages, role) == SelectSeq(messages, LAMBDA m : m.role = role)

C28_ResetStaysIdle ==
    /\ voice.reset => (voice.phase = "idle" /\ voice.chatHistory = <<>>)
    /\ Cardinality({t \in voice.tasks : t.stage = "ai"}) <= 1

\* C29 (SpecThread): a message that is in the application's chat stays in
\* it, and a step that changes the stored messages without appending
\* (updateVideoCallStatus reaching the document) changes nothing but the
\* videoCallStatus of messages.
C29_MessagesKept ==
    [][/\ IdsOf(thread.messages) \subseteq IdsOf(thread'.messages)
       /\ IdsOf(thread'.messages) = IdsOf(thread.messages) =>
            /\ Len(thread'.messages) = Len(thread.messages)
            /\ \A i \in 1..Len(thread.messages) :
                 [thread'.messages[i] EXCEPT !.videoCallStatus = "none"]
                   = [thread.messages[i] EXCEPT !.videoCallStatus = "none"]]_vars

\* C30 (SpecDesk): the candidate has at most one stored application for a
\* job id, also after repeated confirmations of the external-apply
\* dialog and after applying from the jobs page and from the dashboard.
C30_OneApplicationPerJob ==
    \A i, j \in DOMAIN desk.apps :
        desk.apps[i].jobId = desk.apps[j].jobId => i = j

====
